---- MODULE Spec2Model ----
(***************************************************************************)
(* context_models: the tree transformer (mappings.apply / mappings.update) *)
(* over a heap of Python objects, the other mapping functions (filt, sync,  *)
(* sort_by_keys_pattern, replace, replace_pattern), and the context         *)
(* resolver of the context models (ContextBase / ContextStore).            *)
(***************************************************************************)
EXTENDS Integers, Sequences, FiniteSets, TLC

VARIABLES
    heap,     \* the Python objects: heap[a] is the object at address a
    heap0,    \* the heap as it was when the transform was called
    t,        \* address of the mapping the caller passed
    hooks,    \* the hook set of the call
    op,       \* "apply" or "update"
    pc,       \* "idle", "running", "done", "failed"
    stack,    \* one frame per active update() invocation, innermost last
    result,   \* address update()/apply() returned, 0 before that
    cx,       \* context models: the declared classes, the last call, the entity
    mf        \* mapping functions (filt, sync, sort, replace): the call made

vars == <<heap, heap0, t, hooks, op, pc, stack, result, cx, mf>>
tvars == <<heap, heap0, t, hooks, op, pc, stack, result, mf>>

\* no context model is involved in a run of the tree transformer
NoCx == [variant |-> "none"]

\* no mapping function has been called
NoFn == [name |-> "none"]

----------------------------------------------------------------------------
(* Bounds of the model *)

\* total number of entries (over all nesting levels) of an input tree
MaxEntries == 3

Keys == {"a", "b"}
\* key written by the node hooks that add an entry
TAG == "t"
\* 0 is falsy, 1 is truthy
LeafValues == {0, 1}

----------------------------------------------------------------------------
(* Tree values: a leaf or an insertion-ordered mapping *)

LeafVal(v) == [isleaf |-> TRUE, v |-> v, ents |-> <<>>]
NodeVal(ents) == [isleaf |-> FALSE, v |-> 0, ents |-> ents]

KeysOfEnts(ents) == {ents[i].k : i \in 1..Len(ents)}

RECURSIVE NodesOfSize(_)
ValuesOfSize(i) ==
    IF i = 0 THEN {LeafVal(v) : v \in LeafValues} \cup {NodeVal(<<>>)}
    ELSE {NodeVal(n) : n \in NodesOfSize(i)}
NodesOfSize(s) ==
    IF s = 0 THEN {<<>>}
    ELSE UNION {UNION {{<<[k |-> key, val |-> val]>> \o rest :
                            key \in Keys \ KeysOfEnts(rest),
                            val \in ValuesOfSize(i)} :
                       rest \in NodesOfSize(s - 1 - i)} :
                i \in 0..(s - 1)}

Trees == UNION {{NodeVal(n) : n \in NodesOfSize(s)} : s \in 0..MaxEntries}

----------------------------------------------------------------------------
(* The heap: Python objects with identity *)

LeafObj(v) == [kind |-> "leaf", v |-> v, ents |-> <<>>]
NodeObj(ents) == [kind |-> "node", v |-> 0, ents |-> ents]

IsNode(h, a) == h[a].kind = "node"

\* dict operations on an insertion-ordered entry list
HasKey(ents, k) == \E i \in 1..Len(ents) : ents[i].k = k
GetKey(ents, k) == ents[CHOOSE i \in 1..Len(ents) : ents[i].k = k].a
SetKey(ents, k, a) ==
    IF HasKey(ents, k)
    THEN [i \in 1..Len(ents) |-> IF ents[i].k = k THEN [k |-> k, a |-> a] ELSE ents[i]]
    ELSE Append(ents, [k |-> k, a |-> a])
DelKey(ents, k) == SelectSeq(ents, LAMBDA e : e.k # k)
KeySeq(ents) == [i \in 1..Len(ents) |-> ents[i].k]

\* the objects of a tree value, laid out on the heap
RECURSIVE Build(_, _)
RECURSIVE BuildEntries(_, _, _)
BuildEntries(h, ents, acc) ==
    IF ents = <<>> THEN [h |-> h, ents |-> acc]
    ELSE LET b == Build(h, Head(ents).val)
         IN BuildEntries(b.h, Tail(ents), Append(acc, [k |-> Head(ents).k, a |-> b.a]))
Build(h, val) ==
    IF val.isleaf THEN [h |-> Append(h, LeafObj(val.v)), a |-> Len(h) + 1]
    ELSE LET b == BuildEntries(h, val.ents, <<>>)
         IN [h |-> Append(b.h, NodeObj(b.ents)), a |-> Len(b.h) + 1]

\* the tree value held at an address (deep comparison is comparison of these)
RECURSIVE Val(_, _)
Val(h, a) ==
    IF h[a].kind = "leaf" THEN LeafVal(h[a].v)
    ELSE NodeVal([i \in 1..Len(h[a].ents) |->
                    [k |-> h[a].ents[i].k, val |-> Val(h, h[a].ents[i].a)]])

----------------------------------------------------------------------------
(* Hooks.  A hook is named by what it does to its argument:                *)
(*   leaf hooks  "id"     return the argument                              *)
(*               "new"    return a new leaf holding the flipped value      *)
(*               "mutate" flip the argument in place and return it         *)
(*   node hooks  "id"     return the argument                              *)
(*               "fresh"  return a new mapping {**n, TAG: 1}               *)
(*               "mutate" set n[TAG] = 1 in place and return n             *)
(*   predicates  "false"  never, "falsey" is_falsey of the argument        *)
(*   skip_key    "none"   never, otherwise the key that is skipped         *)

DefaultHooks ==
    [skip_key |-> "none",
     node_fun_pre |-> "id", skip_node |-> "false", del_node_pre |-> "false",
     node_fun |-> "id", del_node |-> "false",
     leaf_fun_pre |-> "id", skip_leaf |-> "false", del_leaf_pre |-> "false",
     leaf_fun |-> "id", del_leaf |-> "false"]

AllHooks ==
    [skip_key : {"none", "a"},
     node_fun_pre : {"id", "fresh", "mutate"}, skip_node : {"false", "falsey"},
     del_node_pre : {"false", "falsey"},
     node_fun : {"id", "fresh", "mutate"}, del_node : {"false", "falsey"},
     leaf_fun_pre : {"id", "new", "mutate"}, skip_leaf : {"false", "falsey"},
     del_leaf_pre : {"false", "falsey"},
     leaf_fun : {"id", "new", "mutate"}, del_leaf : {"false", "falsey"}]

\* number of hooks of a hook set that the caller passed (differ from the default)
MaxHookChanges == 1

NChanged(hk) == Cardinality({f \in DOMAIN hk : hk[f] # DefaultHooks[f]})

\* the hooks filt passes to apply: del_node=is_falsey, del_leaf=is_falsey
FiltHooks == [DefaultHooks EXCEPT !.del_node = "falsey", !.del_leaf = "falsey"]

HookSets == {hk \in AllHooks : NChanged(hk) <= MaxHookChanges} \cup {FiltHooks}

Flip(v) == IF v = 0 THEN 1 ELSE 0

Same(h, a) == [h |-> h, a |-> a]

\* copy.copy: a new object with the same (shallow) contents
Copy(h, a) == [h |-> Append(h, h[a]), a |-> Len(h) + 1]

LeafHook(kind, h, a) ==
    CASE kind = "id" -> Same(h, a)
      [] kind = "new" -> [h |-> Append(h, LeafObj(Flip(h[a].v))), a |-> Len(h) + 1]
      [] kind = "mutate" -> [h |-> [h EXCEPT ![a].v = Flip(@)], a |-> a]

NodeHook(kind, h, a) ==
    LET h1 == Append(h, LeafObj(1))
        tag == Len(h) + 1
    IN CASE kind = "id" -> Same(h, a)
         [] kind = "fresh" ->
              [h |-> Append(h1, NodeObj(SetKey(h[a].ents, TAG, tag))), a |-> Len(h1) + 1]
         [] kind = "mutate" ->
              [h |-> [h1 EXCEPT ![a].ents = SetKey(@, TAG, tag)], a |-> a]

\* an is_falsey for which no mapping is falsey
is_falsey_LeafOnly(obj) == obj.kind = "leaf" /\ obj.v = 0

is_falsey(obj) == IF obj.kind = "leaf" THEN obj.v = 0 ELSE obj.ents = <<>>

\* a predicate hook that never holds
Pred_Never(kind, h, a) == FALSE

Pred(kind, h, a) == kind = "falsey" /\ is_falsey(h[a])

SkipKeyHook(kind, key) == kind = key

\* apply that updates the caller's mapping itself
ApplyRoot_Same(h, a) == Same(h, a)

\* apply: mapping=dict(copy(mapping))
ApplyRoot(h, a) == Copy(h, a)

\* apply that hands nested mappings to node_fun_pre without copying them
NodeFunPre_NoCopy(o, hk, h, a) == NodeHook(hk.node_fun_pre, h, a)

\* the node_fun_pre update() calls: apply passes lambda n: node_fun_pre(copy(n))
NodeFunPre(o, hk, h, a) ==
    LET c == IF o = "apply" THEN Copy(h, a) ELSE Same(h, a)
    IN NodeHook(hk.node_fun_pre, c.h, c.a)

\* apply that hands leaves to leaf_fun_pre without copying them
LeafFunPre_NoCopy(o, hk, h, a) == LeafHook(hk.leaf_fun_pre, h, a)

\* the leaf_fun_pre update() calls: apply passes lambda v: leaf_fun_pre(copy(v))
LeafFunPre(o, hk, h, a) ==
    LET c == IF o = "apply" THEN Copy(h, a) ELSE Same(h, a)
    IN LeafHook(hk.leaf_fun_pre, c.h, c.a)

\* a leaf path that hands del_leaf what leaf_fun returned
DelLeafArg_Returned(pre, post) == post

\* del_leaf(leaf): leaf is still the leaf leaf_fun_pre returned (pre), not
\* what leaf_fun returned (post)
DelLeafArg(pre, post) == pre

\* mapping[key] = value
Assign(h, node, key, a) == [h EXCEPT ![node].ents = SetKey(@, key, a)]

\* del mapping[key]
Delete(h, node, key) == [h EXCEPT ![node].ents = DelKey(@, key)]

----------------------------------------------------------------------------
(* update(): one frame per invocation *)

\* keys0, visited and ndel record the pass for the properties below
NewFrame(h, node) ==
    [node |-> node, idx |-> 1, marks |-> <<>>, ndel |-> 0,
     keys0 |-> KeySeq(h[node].ents), visited |-> <<>>]

\* a marks list that records only the first key marked
Mark_FirstOnly(marks, key) == IF marks = <<>> THEN <<key>> ELSE marks

\* marks.append(key)
Mark(marks, key) == Append(marks, key)

\* a deletion loop that runs over the marks backwards
NextMark_Last(fr) == fr.marks[Len(fr.marks) - fr.ndel]

\* the mark the deletion loop removes next
NextMark(fr) == fr.marks[fr.ndel + 1]

\* continue with the next entry of the loop
Advance(fr, key, marked) ==
    [fr EXCEPT !.idx = @ + 1,
               !.visited = Append(@, key),
               !.marks = IF marked THEN Mark(@, key) ELSE @]

Top == stack[Len(stack)]
SetTop(fr) == [stack EXCEPT ![Len(stack)] = fr]
TopEnts == heap[Top.node].ents
AtEntry == pc = "running" /\ Top.idx <= Len(TopEnts)
LoopDone == pc = "running" /\ Top.idx > Len(TopEnts)
CurKey == TopEnts[Top.idx].k
CurAddr == TopEnts[Top.idx].a

RaiseLeaf == {"none", "pre", "mid", "post"}
RaiseNode == {"none", "pre", "mid"}
RaiseReturn == {"none", "pre", "post"}

Init ==
    \E tree \in Trees, hk \in HookSets :
        LET b == Build(<<>>, tree)
        IN /\ heap = b.h
           /\ heap0 = b.h
           /\ t = b.a
           /\ hooks = hk
           /\ op = "none"
           /\ pc = "idle"
           /\ stack = <<>>
           /\ result = 0
           /\ cx = NoCx
           /\ mf = NoFn

\* the caller calls apply(mapping, ...) or update(mapping, ...)
Call ==
    /\ pc = "idle"
    /\ \E o \in {"apply", "update"} :
        LET r == IF o = "apply" THEN ApplyRoot(heap, t) ELSE Same(heap, t)
        IN /\ op' = o
           /\ heap' = r.h
           /\ heap0' = heap
           /\ stack' = <<NewFrame(r.h, r.a)>>
           /\ pc' = "running"
    /\ UNCHANGED <<t, hooks, result, cx, mf>>

\* if skip_key(key): continue
SkipKey ==
    /\ AtEntry
    /\ SkipKeyHook(hooks.skip_key, CurKey)
    /\ stack' = SetTop(Advance(Top, CurKey, FALSE))
    /\ UNCHANGED <<heap, heap0, t, hooks, op, pc, result, cx, mf>>

\* the leaf path of one entry; rp is where a hook raises, if one does
VisitLeaf ==
    /\ AtEntry
    /\ ~SkipKeyHook(hooks.skip_key, CurKey)
    /\ ~IsNode(heap, CurAddr)
    /\ \E rp \in RaiseLeaf :
        LET p == LeafFunPre(op, hooks, heap, CurAddr)
            h1 == Assign(p.h, Top.node, CurKey, p.a)
            skip == Pred(hooks.skip_leaf, h1, p.a)
            delpre == Pred(hooks.del_leaf_pre, h1, p.a)
            q == LeafHook(hooks.leaf_fun, h1, p.a)
            h2 == Assign(q.h, Top.node, CurKey, q.a)
            del == Pred(hooks.del_leaf, h2, DelLeafArg(p.a, q.a))
        IN CASE rp = "pre" ->
                  /\ pc' = "failed"
                  /\ UNCHANGED <<heap, stack>>
             [] rp = "mid" ->
                  /\ pc' = "failed"
                  /\ heap' = h1
                  /\ UNCHANGED stack
             [] rp = "post" ->
                  /\ ~skip /\ ~delpre
                  /\ pc' = "failed"
                  /\ heap' = h2
                  /\ UNCHANGED stack
             [] rp = "none" ->
                  /\ pc' = pc
                  /\ heap' = IF skip \/ delpre THEN h1 ELSE h2
                  /\ stack' = SetTop(Advance(Top, CurKey,
                                 IF skip THEN FALSE ELSE IF delpre THEN TRUE ELSE del))
    /\ UNCHANGED <<heap0, t, hooks, op, result, cx, mf>>

\* the node path of one entry up to the recursive call
EnterNode ==
    /\ AtEntry
    /\ ~SkipKeyHook(hooks.skip_key, CurKey)
    /\ IsNode(heap, CurAddr)
    /\ \E rp \in RaiseNode :
        LET p == NodeFunPre(op, hooks, heap, CurAddr)
            h1 == Assign(p.h, Top.node, CurKey, p.a)
            skip == Pred(hooks.skip_node, h1, p.a)
            delpre == Pred(hooks.del_node_pre, h1, p.a)
        IN CASE rp = "pre" ->
                  /\ pc' = "failed"
                  /\ UNCHANGED <<heap, stack>>
             [] rp = "mid" ->
                  /\ pc' = "failed"
                  /\ heap' = h1
                  /\ UNCHANGED stack
             [] rp = "none" ->
                  /\ pc' = pc
                  /\ heap' = h1
                  /\ stack' = IF skip THEN SetTop(Advance(Top, CurKey, FALSE))
                              ELSE IF delpre THEN SetTop(Advance(Top, CurKey, TRUE))
                              ELSE Append(stack, NewFrame(h1, p.a))
    /\ UNCHANGED <<heap0, t, hooks, op, result, cx, mf>>

\* for mark in marks: del mapping[mark]  (one iteration)
DeleteMark ==
    /\ LoopDone
    /\ Top.ndel < Len(Top.marks)
    /\ IF HasKey(TopEnts, NextMark(Top))
       THEN /\ heap' = Delete(heap, Top.node, NextMark(Top))
            /\ stack' = SetTop([Top EXCEPT !.ndel = @ + 1])
            /\ pc' = pc
       ELSE /\ pc' = "failed"
            /\ UNCHANGED <<heap, stack>>
    /\ UNCHANGED <<heap0, t, hooks, op, result, cx, mf>>

\* a nested update() returns: node_fun, the second assignment, del_node
Return ==
    /\ LoopDone
    /\ Top.ndel = Len(Top.marks)
    /\ Len(stack) > 1
    /\ \E rp \in RaiseReturn :
        LET parent == stack[Len(stack) - 1]
            key == heap[parent.node].ents[parent.idx].k
            q == NodeHook(hooks.node_fun, heap, Top.node)
            h2 == Assign(q.h, parent.node, key, q.a)
            del == Pred(hooks.del_node, h2, q.a)
        IN CASE rp = "pre" ->
                  /\ pc' = "failed"
                  /\ UNCHANGED <<heap, stack>>
             [] rp = "post" ->
                  /\ pc' = "failed"
                  /\ heap' = h2
                  /\ UNCHANGED stack
             [] rp = "none" ->
                  /\ pc' = pc
                  /\ heap' = h2
                  /\ stack' = Append(SubSeq(stack, 1, Len(stack) - 2),
                                     Advance(parent, key, del))
    /\ UNCHANGED <<heap0, t, hooks, op, result, cx, mf>>

\* the outermost update() returns mapping
Finish ==
    /\ LoopDone
    /\ Top.ndel = Len(Top.marks)
    /\ Len(stack) = 1
    /\ pc' = "done"
    /\ result' = Top.node
    /\ UNCHANGED <<heap, heap0, t, hooks, op, stack, cx, mf>>

\* filt(filt(mapping)): the caller passes what filt returned to filt again
FiltAgain ==
    /\ pc = "done" /\ op = "apply" /\ hooks = FiltHooks
    /\ mf.name = "none"
    /\ LET r == ApplyRoot(heap, result)
       IN /\ heap' = r.h
          /\ heap0' = heap
          /\ t' = result
          /\ result' = 0
          /\ stack' = <<NewFrame(r.h, r.a)>>
          /\ pc' = "running"
          /\ mf' = [name |-> "filt", first |-> result]
    /\ UNCHANGED <<hooks, op, cx>>

Next ==
    Call \/ SkipKey \/ VisitLeaf \/ EnterNode \/ DeleteMark \/ Return \/ Finish
    \/ FiltAgain

Spec == Init /\ [][Next]_vars

----------------------------------------------------------------------------
(* update() as one function: what a call returns when nothing else runs *)

\* a raised exception in place of a heap and an address
Raised == [h |-> <<>>, a |-> 0]

\* for mark in marks: del mapping[mark]
RECURSIVE DeleteMarks(_, _, _)
DeleteMarks(h, node, marks) ==
    IF marks = <<>> THEN [h |-> h, a |-> node]
    ELSE IF HasKey(h[node].ents, Head(marks))
         THEN DeleteMarks(Delete(h, node, Head(marks)), node, Tail(marks))
         ELSE Raised

\* the loop of update() from entry idx on, then the deletions
RECURSIVE UpdateFrom(_, _, _, _, _, _)
UpdateFrom(o, hk, h, node, idx, marks) ==
    IF idx > Len(h[node].ents) THEN DeleteMarks(h, node, marks)
    ELSE LET key == h[node].ents[idx].k
             a == h[node].ents[idx].a
             np == NodeFunPre(o, hk, h, a)
             n1 == Assign(np.h, node, key, np.a)
             u == UpdateFrom(o, hk, n1, np.a, 1, <<>>)
             nq == NodeHook(hk.node_fun, u.h, u.a)
             n2 == Assign(nq.h, node, key, nq.a)
             lp == LeafFunPre(o, hk, h, a)
             l1 == Assign(lp.h, node, key, lp.a)
             lq == LeafHook(hk.leaf_fun, l1, lp.a)
             l2 == Assign(lq.h, node, key, lq.a)
         IN IF SkipKeyHook(hk.skip_key, key)
            THEN UpdateFrom(o, hk, h, node, idx + 1, marks)
            ELSE IF IsNode(h, a)
            THEN IF Pred(hk.skip_node, n1, np.a)
                 THEN UpdateFrom(o, hk, n1, node, idx + 1, marks)
                 ELSE IF Pred(hk.del_node_pre, n1, np.a)
                 THEN UpdateFrom(o, hk, n1, node, idx + 1, Mark(marks, key))
                 ELSE IF u.a = 0 THEN Raised
                 ELSE UpdateFrom(o, hk, n2, node, idx + 1,
                          IF Pred(hk.del_node, n2, nq.a) THEN Mark(marks, key) ELSE marks)
            ELSE IF Pred(hk.skip_leaf, l1, lp.a)
                 THEN UpdateFrom(o, hk, l1, node, idx + 1, marks)
                 ELSE IF Pred(hk.del_leaf_pre, l1, lp.a)
                 THEN UpdateFrom(o, hk, l1, node, idx + 1, Mark(marks, key))
                 ELSE UpdateFrom(o, hk, l2, node, idx + 1,
                          IF Pred(hk.del_leaf, l2, DelLeafArg(lp.a, lq.a))
                          THEN Mark(marks, key) ELSE marks)

\* apply(mapping, ...) or update(mapping, ...) run from call to return
RunAlone(o, hk, h, mapping) ==
    LET r == IF o = "apply" THEN ApplyRoot(h, mapping) ELSE Same(h, mapping)
    IN UpdateFrom(o, hk, r.h, r.a, 1, <<>>)

\* the value a call returns when run alone, or that it raises
AloneValue(o, hk, h, mapping) ==
    LET r == RunAlone(o, hk, h, mapping)
    IN IF r.a = 0 THEN LeafVal(0) ELSE Val(r.h, r.a)

----------------------------------------------------------------------------
(* A whole call in one step, for hook sets in which several hooks differ  *)
(* from their defaults                                                    *)

\* entries of the mapping passed, and hooks the caller passes
MaxRunEntries == 2
MaxRunHooks == 2

RunTrees == UNION {{NodeVal(n) : n \in NodesOfSize(sz)} : sz \in 0..MaxRunEntries}
RunHooks == {hk \in AllHooks : NChanged(hk) <= MaxRunHooks}

RunInit ==
    /\ \E tree \in RunTrees, hk \in RunHooks, o \in {"apply", "update"} :
          LET b == Build(<<>>, tree)
          IN /\ heap = b.h /\ heap0 = b.h /\ t = b.a
             /\ hooks = hk /\ op = o
    /\ pc = "run" /\ stack = <<>> /\ result = 0 /\ cx = NoCx /\ mf = NoFn

\* apply(mapping, ...) / update(mapping, ...), from call to return
RunCall ==
    /\ pc = "run"
    /\ LET r == RunAlone(op, hooks, heap, t)
       IN /\ heap' = IF r.a = 0 THEN heap ELSE r.h
          /\ result' = r.a
          /\ pc' = IF r.a = 0 THEN "raised" ELSE "ran"
    /\ UNCHANGED <<heap0, t, hooks, op, stack, cx, mf>>

SpecRun == RunInit /\ [][RunCall]_vars

----------------------------------------------------------------------------
(* Two calls at once: two mappings that hold one nested mapping by       *)
(* reference, a call running on each, their steps interleaved.  Here t,   *)
(* op, stack and result hold one value per call and mf.st the calls'      *)
(* states.                                                                *)

\* entries (over all nesting levels) of the nested mapping both hold
MaxSharedEntries == 1

SharedTrees == UNION {{NodeVal(n) : n \in NodesOfSize(sz)} : sz \in 0..MaxSharedEntries}
\* the hook sets of the two calls: at most one hook differs from its default
ParHooks == {hk \in AllHooks : \A f, g \in DOMAIN hk :
                (hk[f] # DefaultHooks[f] /\ hk[g] # DefaultHooks[g]) => f = g}
Calls == {1, 2}
\* the functions called; the two mappings are alike, so the order of a
\* mixed pair makes no difference
ParOps == {<<"apply", "apply">>, <<"apply", "update">>, <<"update", "update">>}

ParInit ==
    /\ \E tree \in SharedTrees, hk \in ParHooks, ops \in ParOps :
          LET b == Build(<<>>, tree)
              r1 == [h |-> Append(b.h, NodeObj(<<[k |-> "a", a |-> b.a]>>)), a |-> Len(b.h) + 1]
              r2 == [h |-> Append(r1.h, NodeObj(<<[k |-> "a", a |-> b.a]>>)), a |-> Len(r1.h) + 1]
          IN /\ heap = r2.h /\ heap0 = r2.h
             /\ t = <<r1.a, r2.a>>
             /\ hooks = hk
             /\ op = ops
    /\ pc = "par" /\ stack = <<<<>>, <<>>>> /\ result = <<0, 0>>
    /\ cx = NoCx /\ mf = [name |-> "par", st |-> <<"idle", "idle">>]

\* what a step of call i leaves behind
ParStep(i, h, stk, st, res) ==
    /\ heap' = h
    /\ stack' = [stack EXCEPT ![i] = stk]
    /\ mf' = [mf EXCEPT !.st[i] = st]
    /\ result' = [result EXCEPT ![i] = res]
    /\ UNCHANGED <<heap0, t, hooks, op, pc, cx>>

ParTop(i) == stack[i][Len(stack[i])]
ParSetTop(i, fr) == [stack[i] EXCEPT ![Len(stack[i])] = fr]
ParEnts(i) == heap[ParTop(i).node].ents
ParRunning(i) == pc = "par" /\ mf.st[i] = "running"
\* the loop over mapping.items() is on as long as no entry is left out; the
\* iterator raises RuntimeError once the dict has changed its size
ParInLoop(i) == ParRunning(i) /\ ParTop(i).idx <= Len(ParTop(i).keys0)
ParSizeKept(i) == Len(ParEnts(i)) = Len(ParTop(i).keys0)
ParAtEntry(i) == ParInLoop(i) /\ ParSizeKept(i)
ParLoopDone(i) ==
    /\ ParRunning(i) /\ ParTop(i).idx > Len(ParTop(i).keys0)
    /\ ParTop(i).ndel = 0 => ParSizeKept(i)
ParKey(i) == ParEnts(i)[ParTop(i).idx].k
ParAddr(i) == ParEnts(i)[ParTop(i).idx].a

\* call i is made
ParCall ==
    \E i \in Calls :
        /\ pc = "par" /\ mf.st[i] = "idle"
        /\ LET r == IF op[i] = "apply" THEN ApplyRoot(heap, t[i]) ELSE Same(heap, t[i])
           IN ParStep(i, r.h, <<NewFrame(r.h, r.a)>>, "running", 0)

\* if skip_key(key): continue
ParSkipKey ==
    \E i \in Calls :
        /\ ParAtEntry(i)
        /\ SkipKeyHook(hooks.skip_key, ParKey(i))
        /\ ParStep(i, heap, ParSetTop(i, Advance(ParTop(i), ParKey(i), FALSE)), "running", 0)

\* the leaf path of one entry
ParVisitLeaf ==
    \E i \in Calls :
        /\ ParAtEntry(i)
        /\ ~SkipKeyHook(hooks.skip_key, ParKey(i))
        /\ ~IsNode(heap, ParAddr(i))
        /\ LET p == LeafFunPre(op[i], hooks, heap, ParAddr(i))
               h1 == Assign(p.h, ParTop(i).node, ParKey(i), p.a)
               skip == Pred(hooks.skip_leaf, h1, p.a)
               delpre == Pred(hooks.del_leaf_pre, h1, p.a)
               q == LeafHook(hooks.leaf_fun, h1, p.a)
               h2 == Assign(q.h, ParTop(i).node, ParKey(i), q.a)
               del == Pred(hooks.del_leaf, h2, DelLeafArg(p.a, q.a))
           IN ParStep(i, IF skip \/ delpre THEN h1 ELSE h2,
                      ParSetTop(i, Advance(ParTop(i), ParKey(i),
                          IF skip THEN FALSE ELSE IF delpre THEN TRUE ELSE del)),
                      "running", 0)

\* the node path of one entry up to the recursive call
ParEnterNode ==
    \E i \in Calls :
        /\ ParAtEntry(i)
        /\ ~SkipKeyHook(hooks.skip_key, ParKey(i))
        /\ IsNode(heap, ParAddr(i))
        /\ LET p == NodeFunPre(op[i], hooks, heap, ParAddr(i))
               h1 == Assign(p.h, ParTop(i).node, ParKey(i), p.a)
               skip == Pred(hooks.skip_node, h1, p.a)
               delpre == Pred(hooks.del_node_pre, h1, p.a)
           IN ParStep(i, h1,
                      IF skip THEN ParSetTop(i, Advance(ParTop(i), ParKey(i), FALSE))
                      ELSE IF delpre THEN ParSetTop(i, Advance(ParTop(i), ParKey(i), TRUE))
                      ELSE Append(stack[i], NewFrame(h1, p.a)),
                      "running", 0)

\* for mark in marks: del mapping[mark]  (one iteration)
ParDeleteMark ==
    \E i \in Calls :
        /\ ParLoopDone(i)
        /\ ParTop(i).ndel < Len(ParTop(i).marks)
        /\ IF HasKey(ParEnts(i), NextMark(ParTop(i)))
           THEN ParStep(i, Delete(heap, ParTop(i).node, NextMark(ParTop(i))),
                        ParSetTop(i, [ParTop(i) EXCEPT !.ndel = @ + 1]), "running", 0)
           ELSE ParStep(i, heap, stack[i], "failed", 0)

\* a nested update() returns: node_fun, the second assignment, del_node
ParReturn ==
    \E i \in Calls :
        /\ ParLoopDone(i)
        /\ ParTop(i).ndel = Len(ParTop(i).marks)
        /\ Len(stack[i]) > 1
        /\ LET parent == stack[i][Len(stack[i]) - 1]
               key == parent.keys0[parent.idx]
               q == NodeHook(hooks.node_fun, heap, ParTop(i).node)
               h2 == Assign(q.h, parent.node, key, q.a)
               del == Pred(hooks.del_node, h2, q.a)
           IN ParStep(i, h2,
                      Append(SubSeq(stack[i], 1, Len(stack[i]) - 2),
                             Advance(parent, key, del)),
                      "running", 0)

\* the outermost update() returns mapping
ParFinish ==
    \E i \in Calls :
        /\ ParLoopDone(i)
        /\ ParTop(i).ndel = Len(ParTop(i).marks)
        /\ Len(stack[i]) = 1
        /\ ParStep(i, heap, stack[i], "done", ParTop(i).node)

\* RuntimeError: dictionary changed size during iteration
ParSizeChanged ==
    \E i \in Calls :
        /\ ParRunning(i) /\ ParTop(i).ndel = 0 /\ ~ParSizeKept(i)
        /\ ParStep(i, heap, stack[i], "failed", 0)

ParNext ==
    ParCall \/ ParSkipKey \/ ParVisitLeaf \/ ParEnterNode \/ ParDeleteMark
    \/ ParReturn \/ ParFinish \/ ParSizeChanged

SpecPar == ParInit /\ [][ParNext]_vars

----------------------------------------------------------------------------
(* Mapping functions: sync *)

\* total number of entries of a tree given to sync
MaxSyncEntries == 2
SyncTrees == UNION {{NodeVal(n) : n \in NodesOfSize(sz)} : sz \in 0..MaxSyncEntries}

\* reference[key] == synced[key] that holds for no two objects
PyEq_Never(h, a, b) == FALSE

\* x == y of two objects: leaves by value, dicts by their keys and, key by
\* key, their values, whatever the insertion order
RECURSIVE PyEq(_, _, _)
PyEq(h, a, b) ==
    IF h[a].kind = "leaf" \/ h[b].kind = "leaf"
    THEN h[a].kind = h[b].kind /\ h[a].v = h[b].v
    ELSE /\ KeysOfEnts(h[a].ents) = KeysOfEnts(h[b].ents)
         /\ \A k \in KeysOfEnts(h[a].ents) :
               PyEq(h, GetKey(h[a].ents, k), GetKey(h[b].ents, k))

\* a sync that works on the target itself
SyncCopy_Same(h, target) == Same(h, target)

\* synced = copy(target)
SyncCopy(h, target) == Copy(h, target)

\* a first loop that deletes nothing
SyncedKeys_KeepAll(h, reference, ents) == ents

\* a first loop that stops after its first deletion
SyncedKeys_DropFirst(h, reference, ents) ==
    LET foreign == {i \in 1..Len(ents) : ~HasKey(h[reference].ents, ents[i].k)}
    IN IF foreign = {} THEN ents
       ELSE LET i == CHOOSE j \in foreign : \A l \in foreign : j <= l
            IN SubSeq(ents, 1, i - 1) \o SubSeq(ents, i + 1, Len(ents))

\* for key in [k for k in synced if k not in reference]: del synced[key]
SyncedKeys(h, reference, ents) ==
    SelectSeq(ents, LAMBDA e : HasKey(h[reference].ents, e.k))

\* a sync that puts a copy of the reference's value into the result
Adopt_Copy(h, ra) == Copy(h, ra)

\* synced[key] = reference[key]: the value put into the result
Adopt(h, ra) == Same(h, ra)

\* sync(reference, target): the heap after the call and the address returned
RECURSIVE sync(_, _, _)
RECURSIVE SyncKeys(_, _, _, _)
\* for key in reference: ... (from the i-th key on)
SyncKeys(h, reference, synced, i) ==
    IF i > Len(h[reference].ents) THEN h
    ELSE LET key == h[reference].ents[i].k
             ra == h[reference].ents[i].a
             sa == GetKey(h[synced].ents, key)
         IN IF HasKey(h[synced].ents, key) /\ PyEq(h, ra, sa)
            THEN SyncKeys(h, reference, synced, i + 1)
            ELSE IF HasKey(h[synced].ents, key) /\ IsNode(h, ra) /\ IsNode(h, sa)
            THEN LET rec == sync(h, ra, sa)
                 IN SyncKeys(Assign(rec.h, synced, key, rec.a), reference, synced, i + 1)
            ELSE LET ad == Adopt(h, ra)
                 IN SyncKeys(Assign(ad.h, synced, key, ad.a), reference, synced, i + 1)
sync(h, reference, target) ==
    LET c == SyncCopy(h, target)
        h1 == [c.h EXCEPT ![c.a].ents = SyncedKeys(c.h, reference, @)]
    IN [h |-> SyncKeys(h1, reference, c.a, 1), a |-> c.a]

MapInit ==
    /\ heap = <<>> /\ heap0 = <<>> /\ t = 0 /\ hooks = DefaultHooks
    /\ op = "none" /\ pc = "map" /\ stack = <<>> /\ result = 0
    /\ cx = NoCx /\ mf = NoFn

\* sync(reference, target) on two trees, or on one tree passed twice
SyncCall ==
    /\ pc = "map" /\ mf.name = "none"
    /\ \E rv \in SyncTrees, tv \in SyncTrees, same \in BOOLEAN :
        /\ same => tv = rv
        /\ LET b1 == Build(<<>>, rv)
               b2 == IF same THEN b1 ELSE Build(b1.h, tv)
               s == sync(b2.h, b1.a, b2.a)
           IN /\ heap0' = b2.h
              /\ heap' = s.h
              /\ t' = b2.a
              /\ result' = s.a
              /\ mf' = [name |-> "sync", reference |-> b1.a, target |-> b2.a,
                        orig |-> b2.a, first |-> 0]
    /\ UNCHANGED <<hooks, op, pc, stack, cx>>

\* sync(reference, result): the result of the first call is the new target
SyncAgain ==
    /\ pc = "map" /\ mf.name = "sync" /\ mf.first = 0
    /\ LET s == sync(heap, mf.reference, result)
       IN /\ heap0' = heap
          /\ heap' = s.h
          /\ t' = result
          /\ result' = s.a
          /\ mf' = [mf EXCEPT !.target = result, !.first = result]
    /\ UNCHANGED <<hooks, op, pc, stack, cx>>

----------------------------------------------------------------------------
(* Mapping functions: sort_by_keys_pattern.  A string is the sequence of   *)
(* the code points of its characters.                                      *)

\* number of entries of a mapping given to sort_by_keys_pattern
MaxSortEntries == 3

Ord == [sp |-> 32, quote |-> 39, comma |-> 44, dot |-> 46, zero |-> 48, one |-> 49, two |-> 50,
        lbracket |-> 91, rbracket |-> 93, underscore |-> 95,
        a |-> 97, b |-> 98, v |-> 118, w |-> 119]

IsDigit(c) == c \in Ord.zero..(Ord.zero + 9)
IsLetter(c) == c \in Ord.a..(Ord.a + 25)

\* the keys "v1_a", "v2_a", "v10_a", "v1_b", ..., "wv2_a", and "w"
DigitStrings == {<<Ord.one>>, <<Ord.two>>, <<Ord.one, Ord.zero>>}
SortKeyStrings ==
    {<<Ord.v>> \o d \o <<Ord.underscore, c>> : d \in DigitStrings, c \in {Ord.a, Ord.b}}
    \cup {<<Ord.w, Ord.v, Ord.two, Ord.underscore, Ord.a>>, <<Ord.w>>}

\* mappings with distinct keys; the value of an entry is its position
SortMappings ==
    UNION {{m \in [1..n -> [k : SortKeyStrings, val : 1..n]] :
                /\ \A i \in 1..n : m[i].val = i
                /\ \A i, j \in 1..n : i # j => m[i].k # m[j].k} :
           n \in 0..MaxSortEntries}

\* pattern.search(key) for the pattern v(?P<n>\d+)_(?P<s>[a-z]): the
\* leftmost match, \d+ taking every digit that follows
MatchAt(key, i, j) ==
    /\ key[i] = Ord.v
    /\ j > i /\ j + 2 <= Len(key)
    /\ \A l \in (i + 1)..j : IsDigit(key[l])
    /\ key[j + 1] = Ord.underscore
    /\ IsLetter(key[j + 2])
Matches(key) == {ij \in (1..Len(key)) \X (1..Len(key)) : MatchAt(key, ij[1], ij[2])}
Search(key) ==
    IF Matches(key) = {} THEN [found |-> FALSE, n |-> <<>>, s |-> <<>>]
    ELSE LET ij == CHOOSE m \in Matches(key) : \A o \in Matches(key) : m[1] <= o[1]
         IN [found |-> TRUE, n |-> SubSeq(key, ij[1] + 1, ij[2]),
             s |-> <<key[ij[2] + 2]>>]

\* [match[g] for g in groups]
GroupLists == {<<"n">>, <<"n", "s">>, <<"s", "n">>}
Captured(key, groups) == [g \in 1..Len(groups) |-> Search(key)[groups[g]]]

\* str(list of str): "['10', 'a']"
RECURSIVE JoinQuoted(_)
JoinQuoted(strs) ==
    IF strs = <<>> THEN <<>>
    ELSE <<Ord.quote>> \o Head(strs) \o <<Ord.quote>>
         \o (IF Len(strs) > 1 THEN <<Ord.comma, Ord.sp>> ELSE <<>>)
         \o JoinQuoted(Tail(strs))
PyStr(strs) == <<Ord.lbracket>> \o JoinQuoted(strs) \o <<Ord.rbracket>>

\* an int() that reads only the last digit
PyInt_LastDigit(str) == str[Len(str)] - Ord.zero

\* int(str) of a string of decimal digits
RECURSIVE PyInt(_)
PyInt(str) ==
    IF Len(str) = 1 THEN str[1] - Ord.zero
    ELSE 10 * PyInt(SubSeq(str, 1, Len(str) - 1)) + (str[Len(str)] - Ord.zero)

\* apply_to_match: "str" is the default; "int" is the builtin, which takes
\* no list; "int_first" is lambda groups: int(groups[0])
Transforms == {"str", "int", "int_first"}
ApplyToMatch(transform, strs) ==
    CASE transform = "str" -> [kind |-> "str", str |-> PyStr(strs), n |-> 0]
      [] transform = "int" -> [kind |-> "TypeError", str |-> <<>>, n |-> 0]
      [] transform = "int_first" ->
            IF \A i \in 1..Len(strs[1]) : IsDigit(strs[1][i])
            THEN [kind |-> "int", str |-> <<>>, n |-> PyInt(strs[1])]
            ELSE [kind |-> "ValueError", str |-> <<>>, n |-> 0]

\* get_key(item)
get_key(item, groups, transform) ==
    IF Search(item.k).found THEN ApplyToMatch(transform, Captured(item.k, groups))
    ELSE [kind |-> "ValueError", str |-> <<>>, n |-> 0]

\* str < str: by code point, a proper prefix first
RECURSIVE StrLess(_, _)
StrLess(x, y) ==
    IF y = <<>> THEN FALSE
    ELSE IF x = <<>> THEN TRUE
    ELSE IF Head(x) # Head(y) THEN Head(x) < Head(y)
    ELSE StrLess(Tail(x), Tail(y))

\* key1 < key2, as sorted() asks
KeyLess(k1, k2) == IF k1.kind = "int" THEN k1.n < k2.n ELSE StrLess(k1.str, k2.str)

\* sorted() is stable: an item goes behind every item whose key is not greater
SortedInsert(acc, item, groups, transform) ==
    LET before == {i \in 1..Len(acc) :
                      ~KeyLess(get_key(item, groups, transform),
                               get_key(acc[i], groups, transform))}
        n == Cardinality(before)
    IN SubSeq(acc, 1, n) \o <<item>> \o SubSeq(acc, n + 1, Len(acc))

RECURSIVE Sorted(_, _, _, _)
Sorted(items, acc, groups, transform) ==
    IF items = <<>> THEN acc
    ELSE Sorted(Tail(items), SortedInsert(acc, Head(items), groups, transform),
                groups, transform)

\* sort_by_keys_pattern(mapping, pattern, groups, apply_to_match)
sort_by_keys_pattern(mapping, groups, transform) ==
    LET errors == {get_key(mapping[i], groups, transform).kind : i \in 1..Len(mapping)}
                  \cap {"ValueError", "TypeError"}
    IN IF errors # {} THEN [raised |-> CHOOSE e \in errors : TRUE, ents |-> <<>>]
       ELSE [raised |-> "", ents |-> Sorted(mapping, <<>>, groups, transform)]

SortCall ==
    /\ pc = "map" /\ mf.name = "none"
    /\ \E mapping \in SortMappings, groups \in GroupLists, transform \in Transforms :
          mf' = [name |-> "sort_by_keys_pattern", mapping |-> mapping,
                 groups |-> groups, transform |-> transform,
                 ret |-> sort_by_keys_pattern(mapping, groups, transform)]
    /\ UNCHANGED <<heap, heap0, t, hooks, op, pc, stack, result, cx>>

----------------------------------------------------------------------------
(* Mapping functions: replace and replace_pattern *)

\* number of Repl rules of a call
MaxRepls == 2

\* the mapping has the keys a and b; c is a key it does not have
ReplKeys == {"a", "b"}
ReplValues == {<<Ord.a, Ord.dot>>, <<Ord.b>>}
ReplMappings == [ReplKeys -> ReplValues]

\* Repl(src, dst, find, repl): find is "a", "." or "", repl is "b"
Repls ==
    [src : ReplKeys \cup {"c"}, dst : ReplKeys \cup {"c"},
     find : {<<Ord.a>>, <<Ord.dot>>, <<>>}, repl : {<<Ord.b>>}]
ReplLists == UNION {[1..n -> Repls] : n \in 0..MaxRepls}

\* repl in front of every character and at the end: what both str.replace
\* and re.sub do for an empty find
RECURSIVE Interleave(_, _)
Interleave(str, repl) ==
    IF str = <<>> THEN repl
    ELSE repl \o <<Head(str)>> \o Interleave(Tail(str), repl)

\* str.replace(find, repl): every occurrence of find, left to right
RECURSIVE StrReplace(_, _, _)
StrReplace(str, find, repl) ==
    IF find = <<>> THEN Interleave(str, repl)
    ELSE IF Len(str) < Len(find) THEN str
    ELSE IF SubSeq(str, 1, Len(find)) = find
    THEN repl \o StrReplace(SubSeq(str, Len(find) + 1, Len(str)), find, repl)
    ELSE <<Head(str)>> \o StrReplace(Tail(str), find, repl)

\* the pattern find matches at the start of str: "." stands for any character
PatternMatches(find, str) ==
    /\ Len(str) >= Len(find)
    /\ \A i \in 1..Len(find) : find[i] = Ord.dot \/ find[i] = str[i]

\* re.sub(find, repl, str)
RECURSIVE ReSub(_, _, _)
ReSub(find, repl, str) ==
    IF find = <<>> THEN Interleave(str, repl)
    ELSE IF Len(str) < Len(find) THEN str
    ELSE IF PatternMatches(find, str)
    THEN repl \o ReSub(find, repl, SubSeq(str, Len(find) + 1, Len(str)))
    ELSE <<Head(str)>> \o ReSub(find, repl, Tail(str))

Substitute(name, str, find, repl) ==
    IF name = "replace" THEN StrReplace(str, find, repl) ELSE ReSub(find, repl, str)

\* a loop that reads every source from the mapping as it was passed
ReadSrc_Initial(mapping0, mapping, src) == mapping0[src]

\* mapping[r.src]
ReadSrc(mapping0, mapping, src) == mapping[src]

\* mapping[key] = value: the key is added when the mapping has none such
SetItem(mapping, key, value) ==
    [k \in DOMAIN mapping \cup {key} |-> IF k = key THEN value ELSE mapping[k]]

\* a lookup that knows only the keys the mapping had when it was passed
HasSrc_Initial(mapping0, mapping, src) == src \in DOMAIN mapping0

\* mapping[r.src] raises KeyError unless the mapping has the key
HasSrc(mapping0, mapping, src) == src \in DOMAIN mapping

\* replace(mapping, repls) / replace_pattern(mapping, repls) is called
ReplaceCall ==
    /\ pc = "map" /\ mf.name = "none"
    /\ \E name \in {"replace", "replace_pattern"},
          mapping \in ReplMappings, repls \in ReplLists :
          mf' = [name |-> name, mapping0 |-> mapping, mapping |-> mapping,
                 repls |-> repls, i |-> 0, raised |-> ""]
    /\ UNCHANGED <<heap, heap0, t, hooks, op, pc, stack, result, cx>>

\* one iteration of for r in repls: mapping[r.dst] = substitute(mapping[r.src])
ReplaceStep ==
    /\ pc = "map" /\ mf.name \in {"replace", "replace_pattern"}
    /\ mf.raised = "" /\ mf.i < Len(mf.repls)
    /\ LET r == mf.repls[mf.i + 1]
       IN IF ~HasSrc(mf.mapping0, mf.mapping, r.src)
          THEN mf' = [mf EXCEPT !.raised = "KeyError"]
          ELSE mf' = [mf EXCEPT
                        !.i = @ + 1,
                        !.mapping = SetItem(@, r.dst,
                            Substitute(mf.name, ReadSrc(mf.mapping0, mf.mapping, r.src),
                                       r.find, r.repl))]
    /\ UNCHANGED <<heap, heap0, t, hooks, op, pc, stack, result, cx>>

MapNext == SyncCall \/ SyncAgain \/ SortCall \/ ReplaceCall \/ ReplaceStep

SpecMap == MapInit /\ [][MapNext]_vars

----------------------------------------------------------------------------
(* Context models: values of the data handed to validation *)

CONTEXT == "context"
ROOT == "root"
_CONTEXT == "_context"
CONFIG == "config"
PLUGINS == "plugins"
_CONTEXT_TREE == "context_tree"
PLUGIN_SETTINGS == "plugin_settings"
PROTECTED_NAMESPACES == "protected_namespaces"

CtxKeys == {"a", "b"}

\* None, a value that is no mapping nor model, a mapping, a constructed
\* model (BaseModel instance) of class cls, and a raised error
NoneV == [kind |-> "none", v |-> 0, ents |-> <<>>, cls |-> ""]
ErrV == [kind |-> "error", v |-> 0, ents |-> <<>>, cls |-> ""]
L(v) == [kind |-> "leaf", v |-> v, ents |-> <<>>, cls |-> ""]
M(ents) == [kind |-> "map", v |-> 0, ents |-> ents, cls |-> ""]
E(cls, ents) == [kind |-> "model", v |-> 0, ents |-> ents, cls |-> cls]

\* Context()
EmptyCtx == M(<<>>)

VHas(ents, k) == \E i \in 1..Len(ents) : ents[i].k = k
VGet(ents, k) == ents[CHOOSE i \in 1..Len(ents) : ents[i].k = k].val
\* d[k] = val
VPut(ents, k, val) ==
    IF VHas(ents, k)
    THEN [i \in 1..Len(ents) |-> IF ents[i].k = k THEN [k |-> k, val |-> val] ELSE ents[i]]
    ELSE Append(ents, [k |-> k, val |-> val])
VKeys(ents) == {ents[i].k : i \in 1..Len(ents)}

\* d.get(k, default)
DictGet(d, k, default) == IF VHas(d.ents, k) THEN VGet(d.ents, k) ELSE default

\* bool(value)
PyTruthy(val) ==
    CASE val.kind = "none" -> FALSE
      [] val.kind = "leaf" -> val.v # 0
      [] val.kind = "map" -> val.ents # <<>>
      [] OTHER -> TRUE

\* a or b
PyOr(a, b) == IF PyTruthy(a) THEN a ELSE b

\* {**a, **b} with the later source winning
RECURSIVE MergeEnts_Reversed(_, _)
MergeEnts_Reversed(e1, e2) ==
    IF e1 = <<>> THEN e2
    ELSE MergeEnts_Reversed(Tail(e1), VPut(e2, Head(e1).k, Head(e1).val))

\* {**a, **b}
RECURSIVE MergeEnts(_, _)
MergeEnts(e1, e2) ==
    IF e2 = <<>> THEN e1
    ELSE MergeEnts(VPut(e1, Head(e2).k, Head(e2).val), Tail(e2))

Merge(a, b) == M(MergeEnts(a.ents, b.ents))

\* a mapping as a function of its keys: equality of mappings ignores order
AsFun(d) == [k \in VKeys(d.ents) |-> VGet(d.ents, k)]

\* filt at the level of values: apply with del_node = del_leaf = is_falsey
RECURSIVE FiltEnts(_)
FiltEnts(ents) ==
    IF ents = <<>> THEN <<>>
    ELSE LET e == Head(ents)
             fv == IF e.val.kind = "map" THEN M(FiltEnts(e.val.ents)) ELSE e.val
         IN IF PyTruthy(fv) THEN <<[k |-> e.k, val |-> fv]>> \o FiltEnts(Tail(ents))
            ELSE FiltEnts(Tail(ents))
filt(d) == M(FiltEnts(d.ents))

----------------------------------------------------------------------------
(* Context models: the declared classes *)

\* Outer has a field child: Inner; both derive from ContextBase or, in the
\* stored-context variant, from ContextStore (which declares the field
\* context); x and y are int fields
Classes == {"Outer", "Inner"}
Variants == {"ContextBase", "ContextStore"}

\* two more classes, both declaring the default context Outer declares:
\* Root is a ContextRoot whose field root is an Inner; Holder has a field
\* item: Root, a field child: Inner and a field context, which in the
\* ContextBase variant is itself an Inner
TreeClasses == Classes \cup {"Root", "Holder"}
DeclOf(decl, cls) == IF cls \in Classes THEN decl[cls] ELSE decl["Outer"]

\* cls.model_fields: field name and annotation
model_fields(variant, cls) ==
    (IF variant = "ContextStore" /\ cls \in Classes
     THEN <<[f |-> CONTEXT, ann |-> "Context"]>> ELSE <<>>)
    \o (CASE cls = "Outer" -> <<[f |-> "x", ann |-> "int"], [f |-> "child", ann |-> "Inner"]>>
          [] cls = "Inner" -> <<[f |-> "y", ann |-> "int"]>>
          [] cls = "Root" -> <<[f |-> ROOT, ann |-> "Inner"]>>
          [] cls = "Holder" ->
                <<[f |-> CONTEXT,
                   ann |-> IF variant = "ContextStore" THEN "Context" ELSE "Inner"],
                  [f |-> "item", ann |-> "Root"], [f |-> "child", ann |-> "Inner"]>>
          [] OTHER -> <<>>)

\* cls.model_config: PluginConfigDict(plugin_settings=ContextPluginSettings(
\* context=<declared default>), protected_namespaces=()); {} for other types
model_config(decl, cls) ==
    IF cls \in TreeClasses
    THEN M(<<[k |-> PLUGIN_SETTINGS, val |-> M(<<[k |-> CONTEXT, val |-> DeclOf(decl, cls)]>>)],
             [k |-> PROTECTED_NAMESPACES, val |-> L(0)]>>)
    ELSE M(<<>>)

\* cls.model_config[PLUGIN_SETTINGS][CONTEXT]
DeclaredContext(decl, cls) == VGet(VGet(model_config(decl, cls).ents, PLUGIN_SETTINGS).ents, CONTEXT)

\* a tree builder that leaves no field out by its name
ExcludedFields_None == {}

\* f not in [ROOT, CONTEXT]
ExcludedFields == {ROOT, CONTEXT}

RECURSIVE get_context_tree(_, _, _)
RECURSIVE ContextTreeNodes(_, _, _, _)
ContextTreeNodes(variant, decl, fields, nodes) ==
    IF fields = <<>> THEN nodes
    ELSE LET f == Head(fields)
             node == get_context_tree(variant, decl, f.ann)
         IN ContextTreeNodes(variant, decl, Tail(fields),
                IF f.f \notin ExcludedFields /\ PyTruthy(filt(node))
                THEN VPut(nodes, f.f, node) ELSE nodes)
get_context_tree(variant, decl, klass) ==
    LET nodes == ContextTreeNodes(variant, decl, model_fields(variant, klass), <<>>)
        config == model_config(decl, klass)
        p == DictGet(config, PLUGIN_SETTINGS, M(<<>>))
    IN M(<<[k |-> CONFIG, val |-> config],
           [k |-> PLUGINS, val |-> p],
           [k |-> CONTEXT, val |-> DictGet(p, CONTEXT, M(<<>>))],
           [k |-> _CONTEXT_TREE, val |-> M(nodes)]>>)

----------------------------------------------------------------------------
(* Context models: the resolver *)

\* a context_get that leaves out the declared default context
ContextBase_context_get_NoDefault(decl, cls, data, context, context_base) ==
    IF data.kind = "model" THEN EmptyCtx
    ELSE Merge(Merge(PyOr(context_base, EmptyCtx),
                     DictGet(data, _CONTEXT, EmptyCtx)),
               PyOr(context, EmptyCtx))

\* ContextBase.context_get
ContextBase_context_get(decl, cls, data, context, context_base) ==
    IF data.kind = "model" THEN EmptyCtx
    ELSE Merge(Merge(PyOr(context_base, DeclaredContext(decl, cls)),
                     DictGet(data, _CONTEXT, EmptyCtx)),
               PyOr(context, EmptyCtx))

\* a context_get that takes no constructed entity for a ContextStore
IsContextStore_Never(variant, data) == FALSE

\* isinstance(data, ContextStore)
IsContextStore(variant, data) ==
    data.kind = "model" /\ variant = "ContextStore" /\ data.cls \in Classes

\* ContextStore.context_get
ContextStore_context_get(decl, cls, data, context, context_base) ==
    IF IsContextStore("ContextStore", data) THEN VGet(data.ents, CONTEXT)
    ELSE IF data.kind = "model" THEN EmptyCtx
    ELSE Merge(Merge(Merge(PyOr(context_base, DeclaredContext(decl, cls)),
                           DictGet(data, _CONTEXT, EmptyCtx)),
                     DictGet(data, CONTEXT, EmptyCtx)),
               PyOr(context, EmptyCtx))

\* cls.context_get, by the class the call is made on
context_get(variant, decl, cls, data, context, context_base) ==
    IF variant = "ContextStore"
    THEN ContextStore_context_get(decl, cls, data, context, context_base)
    ELSE ContextBase_context_get(decl, cls, data, context, context_base)

\* ContextBase.context_pre_init's apply(): skip_key = (k == _CONTEXT),
\* skip_node = isinstance(v, BaseModel), node_fun = {**v, _CONTEXT: injected}
RECURSIVE PreInitWalk(_, _)
PreInitWalk(ents, injected) ==
    IF ents = <<>> THEN <<>>
    ELSE LET e == Head(ents)
             nv == IF e.k # _CONTEXT /\ e.val.kind = "map"
                   THEN M(VPut(PreInitWalk(e.val.ents, injected), _CONTEXT, injected))
                   ELSE e.val
         IN <<[k |-> e.k, val |-> nv]>> \o PreInitWalk(Tail(ents), injected)

\* ContextBase.context_pre_init
ContextBase_context_pre_init(decl, cls, data, context) ==
    IF data.kind = "model" THEN data
    ELSE LET ctx == ContextBase_context_get(decl, cls, data, context, NoneV)
         IN M(PreInitWalk(VPut(data.ents, _CONTEXT, ctx),
                          Merge(DictGet(data, _CONTEXT, EmptyCtx), ctx)))

\* ContextStore.context_get_data; a value that is no mapping cannot be
\* unpacked by {**data, ...}: the call raises
RECURSIVE context_get_data(_, _, _, _, _)
RECURSIVE ContextGetDataFields(_, _, _, _, _)
ContextGetDataFields(decl, cls, data, fields, context) ==
    IF fields = <<>> \/ data.kind = "error" THEN data
    ELSE LET field == Head(fields).k
             node == Head(fields).val
             inner_data == PyOr(DictGet(data, field, NoneV), M(<<>>))
             inner == context_get_data(decl, cls, inner_data,
                          VGet(node.ents, _CONTEXT_TREE),
                          ContextStore_context_get(decl, cls, data, context,
                                                   VGet(node.ents, CONTEXT)))
         IN IF inner_data.kind = "model"
            THEN ContextGetDataFields(decl, cls, data, Tail(fields), context)
            ELSE IF inner.kind = "error" THEN ErrV
            ELSE ContextGetDataFields(decl, cls, M(VPut(data.ents, field, inner)),
                                      Tail(fields), context)
context_get_data(decl, cls, data, tree, context) ==
    IF data.kind # "map" THEN ErrV
    ELSE LET d == ContextGetDataFields(decl, cls, data, tree.ents, context)
         IN IF d.kind = "error" THEN ErrV ELSE M(VPut(d.ents, _CONTEXT, context))

\* ContextStore.context_pre_init
ContextStore_context_pre_init(decl, cls, data, context) ==
    IF data.kind = "model" THEN data
    ELSE context_get_data(decl, cls, data,
             VGet(get_context_tree("ContextStore", decl, cls).ents, _CONTEXT_TREE),
             ContextStore_context_get(decl, cls, data, context, NoneV))

context_pre_init(variant, decl, cls, data, context) ==
    IF variant = "ContextStore"
    THEN ContextStore_context_pre_init(decl, cls, data, context)
    ELSE ContextBase_context_pre_init(decl, cls, data, context)

----------------------------------------------------------------------------
(* Context models: calls of the resolver, construction and emission *)

\* a context holding the keys S, all with value v (v names the source)
KeyOrder == <<"a", "b">>
CtxOf(S, v) ==
    LET sel == SelectSeq(KeyOrder, LAMBDA k : k \in S)
    IN M([i \in 1..Len(sel) |-> [k |-> sel[i], val |-> L(v)]])
Ctxs(v) == {CtxOf(S, v) : S \in SUBSET CtxKeys}
OptCtxs(v) == Ctxs(v) \cup {NoneV}

\* sources of context, by the value their keys carry
SrcOuterDefault == 1
SrcRootEmbedded == 2
SrcChildEmbedded == 3
SrcExplicit == 4
SrcInnerDefault == 5
SrcRootStored == 6
SrcChildStored == 7
SrcBase == 8

\* raw data: mappings with optional _context and context entries
WithOpt(ents, k, val) == IF val.kind = "none" THEN ents ELSE Append(ents, [k |-> k, val |-> val])
FlatData(v1, v2) ==
    {M(WithOpt(WithOpt(<<>>, _CONTEXT, c1), CONTEXT, c2)) :
        c1 \in OptCtxs(v1), c2 \in OptCtxs(v2)}
InnerModel == E("Inner", <<[k |-> CONTEXT, val |-> EmptyCtx]>>)
PlainModel == E("BaseModel", <<>>)
\* constructed entities of the declared classes: a ContextStore holds its
\* context in the field context, a ContextBase has no such field
Entities(variant) ==
    IF variant = "ContextStore"
    THEN {E(cls, <<[k |-> CONTEXT, val |-> c]>>) : cls \in Classes, c \in Ctxs(SrcRootStored)}
    ELSE {E(cls, <<>>) : cls \in Classes}
ChildValues ==
    FlatData(SrcChildEmbedded, SrcChildStored) \cup {NoneV, L(0), L(1), InnerModel}
RootData ==
    {M(WithOpt(d.ents, "child", c)) :
        d \in FlatData(SrcRootEmbedded, SrcRootStored), c \in ChildValues}

NoCall ==
    [fn |-> "none", cls |-> "", data |-> NoneV, context |-> NoneV,
     base |-> NoneV, ret |-> NoneV, handed |-> NoneV]

\* ContextBase.__context_init__: the data and the context given to
\* __pydantic_validator__.validate_python
context_init(variant, decl, cls, data, context) ==
    IF data.kind = "model" THEN [data |-> data, context |-> context]
    ELSE LET d == context_pre_init(variant, decl, cls, data, context)
         IN IF d.kind = "error" THEN [data |-> ErrV, context |-> ErrV]
            ELSE [data |-> d,
                  context |-> Merge(DictGet(d, _CONTEXT, EmptyCtx), PyOr(context, EmptyCtx))]

\* the text of a JSON document that denotes val, and json's loads: the
\* value a text denotes, a TypeError for anything that is no text
Text(val) == [kind |-> "str", v |-> 0, ents |-> <<[k |-> "json", val |-> val]>>, cls |-> ""]
loads(s) == IF s.kind = "str" THEN s.ents[1].val ELSE ErrV

\* apply(obj, leaf_fun=loads): every leaf of the mapping is parsed
RECURSIVE ApplyLoadsEnts(_)
ApplyLoads(obj) ==
    IF obj.kind = "map"
    THEN LET ents == ApplyLoadsEnts(obj.ents)
         IN IF \E i \in 1..Len(ents) : ents[i].val.kind = "error" THEN ErrV ELSE M(ents)
    ELSE loads(obj)
ApplyLoadsEnts(ents) ==
    IF ents = <<>> THEN <<>>
    ELSE <<[k |-> Head(ents).k, val |-> ApplyLoads(Head(ents).val)]>>
             \o ApplyLoadsEnts(Tail(ents))

\* cls.model_validate(obj, context=context): the data and the context given
\* to __pydantic_validator__.validate_python; ContextStore.model_validate
\* resolves the context first and then calls ContextBase.model_validate
model_validate(variant, decl, cls, obj, context) ==
    IF obj.kind = "error" THEN [data |-> ErrV, context |-> ErrV]
    ELSE LET given == IF variant = "ContextStore"
                      THEN ContextStore_context_get(decl, cls, obj, context, NoneV)
                      ELSE context
             c == PyOr(given, EmptyCtx)
             d == context_pre_init(variant, decl, cls, obj, c)
         IN IF d.kind = "error" THEN [data |-> ErrV, context |-> ErrV]
            ELSE [data |-> d, context |-> c]

\* cls.model_validate_strings(obj, context=context)
model_validate_strings(variant, decl, cls, obj, context) ==
    model_validate(variant, decl, cls, ApplyLoads(obj), context)

\* cls.model_validate_json(json_data, context=context)
model_validate_json(variant, decl, cls, json_data, context) ==
    model_validate(variant, decl, cls, loads(json_data), context)

\* ContextRoot.__init__: validate_python(input=root, context=Context())
ContextRoot_init(root) == [data |-> root, context |-> EmptyCtx]

\* ContextStore.validate_context_bef stores info.context in the field context
Validated(variant, cls, context) ==
    IF variant = "ContextStore"
    THEN E(cls, <<[k |-> CONTEXT, val |-> context]>>)
    ELSE E(cls, <<>>)

\* ContextStore.context_get_own
context_get_own(decl, self, data, context, context_base) ==
    Merge(VGet(self.ents, CONTEXT),
          ContextStore_context_get(decl, self.cls, data, context, context_base))

\* the context model_dump / model_dump_json pass to the serializer
DumpContext(variant, decl, self, context) ==
    IF variant = "ContextStore"
    THEN context_get_own(decl, self, self, context, NoneV)
    ELSE PyOr(context, EmptyCtx)

CtxInit ==
    /\ \E variant \in Variants, dO \in Ctxs(SrcOuterDefault), dI \in Ctxs(SrcInnerDefault) :
          cx = [variant |-> variant,
                decl |-> [Outer |-> dO, Inner |-> dI],
                call |-> NoCall,
                ent |-> NoneV]
    /\ heap = <<>> /\ heap0 = <<>> /\ t = 0 /\ hooks = DefaultHooks
    /\ op = "none" /\ pc = "ctx" /\ stack = <<>> /\ result = 0 /\ mf = NoFn

\* cls.context_get(data, context, context_base)
ContextGetCall ==
    /\ cx.call.fn = "none"
    /\ \E cls \in Classes,
          data \in FlatData(SrcRootEmbedded, SrcRootStored) \cup {PlainModel}
                       \cup Entities(cx.variant),
          context \in OptCtxs(SrcExplicit), base \in OptCtxs(SrcBase) :
          cx' = [cx EXCEPT !.call =
                    [fn |-> "context_get", cls |-> cls, data |-> data,
                     context |-> context, base |-> base,
                     ret |-> context_get(cx.variant, cx.decl, cls, data, context, base),
                     handed |-> NoneV]]
    /\ UNCHANGED tvars

\* Outer.context_pre_init(data, context)
ContextPreInitCall ==
    /\ cx.call.fn = "none"
    /\ \E data \in RootData, context \in OptCtxs(SrcExplicit) :
          cx' = [cx EXCEPT !.call =
                    [fn |-> "context_pre_init", cls |-> "Outer", data |-> data,
                     context |-> context, base |-> NoneV,
                     ret |-> context_pre_init(cx.variant, cx.decl, "Outer", data, context),
                     handed |-> NoneV]]
    /\ UNCHANGED tvars

\* Outer(**data): ContextBase.__init__ and the validation it starts
Construct ==
    /\ cx.call.fn = "none"
    /\ \E data \in RootData :
          LET r == context_init(cx.variant, cx.decl, "Outer", data, NoneV)
          IN cx' = [cx EXCEPT
                      !.call = [fn |-> "__init__", cls |-> "Outer", data |-> data,
                                context |-> NoneV, base |-> NoneV,
                                ret |-> r.data, handed |-> r.context],
                      !.ent = IF r.data.kind = "error" THEN NoneV
                              ELSE Validated(cx.variant, "Outer", r.context)]
    /\ UNCHANGED tvars

\* self.model_dump(context=...) / self.model_dump_json(context=...)
ModelDump ==
    /\ cx.call.fn = "__init__"
    /\ cx.ent.kind = "model"
    /\ \E fn \in {"model_dump", "model_dump_json"}, context \in OptCtxs(SrcExplicit) :
          cx' = [cx EXCEPT !.call =
                    [fn |-> fn, cls |-> cx.ent.cls, data |-> cx.ent,
                     context |-> context, base |-> NoneV,
                     ret |-> NoneV,
                     handed |-> DumpContext(cx.variant, cx.decl, cx.ent, context)]]
    /\ UNCHANGED tvars

\* raw data handed to the model_validate family: the child is absent, an
\* int, an empty mapping or a constructed entity
ValidateData ==
    {M(WithOpt(d.ents, "child", c)) :
        d \in FlatData(SrcRootEmbedded, SrcRootStored),
        c \in {NoneV, L(1), M(<<>>), InnerModel}}

\* data with every leaf written as a string, as model_validate_strings takes
\* it (a constructed entity cannot be written so and stays)
RECURSIVE AsStrings(_)
AsStrings(val) ==
    CASE val.kind = "map" ->
            M([i \in 1..Len(val.ents) |->
                  [k |-> val.ents[i].k, val |-> AsStrings(val.ents[i].val)]])
      [] val.kind = "leaf" -> Text(val)
      [] OTHER -> val
RECURSIVE HasModel(_)
HasModel(val) ==
    \/ val.kind = "model"
    \/ \E i \in 1..Len(val.ents) : HasModel(val.ents[i].val)

\* Outer.model_validate(data, context=...), Outer.model_validate_strings(...)
\* and Outer.model_validate_json(...) of the same data
ModelValidateCall ==
    /\ cx.call.fn = "none"
    /\ \E fn \in {"model_validate", "model_validate_strings", "model_validate_json"},
          data \in ValidateData, context \in OptCtxs(SrcExplicit) :
          /\ fn = "model_validate_json" => ~HasModel(data)
          /\ LET r == CASE fn = "model_validate" ->
                              model_validate(cx.variant, cx.decl, "Outer", data, context)
                        [] fn = "model_validate_strings" ->
                              model_validate_strings(cx.variant, cx.decl, "Outer",
                                                     AsStrings(data), context)
                        [] OTHER ->
                              model_validate_json(cx.variant, cx.decl, "Outer",
                                                  Text(data), context)
             IN cx' = [cx EXCEPT
                         !.call = [fn |-> fn, cls |-> "Outer", data |-> data,
                                   context |-> context, base |-> NoneV,
                                   ret |-> r.data, handed |-> r.context],
                         !.ent = IF r.data.kind = "error" THEN NoneV
                                 ELSE Validated(cx.variant, "Outer", r.context)]
    /\ UNCHANGED tvars

\* Root(**data): ContextRoot.__init__ with the root given by keywords
ConstructRoot ==
    /\ cx.call.fn = "none"
    /\ \E data \in FlatData(SrcRootEmbedded, SrcRootStored) :
          LET r == ContextRoot_init(data)
          IN cx' = [cx EXCEPT !.call =
                       [fn |-> "ContextRoot.__init__", cls |-> "Root", data |-> data,
                        context |-> NoneV, base |-> NoneV,
                        ret |-> r.data, handed |-> r.context]]
    /\ UNCHANGED tvars

\* get_context_tree(klass)
GetContextTreeCall ==
    /\ cx.call.fn = "none"
    /\ \E klass \in TreeClasses \cup {"int"} :
          cx' = [cx EXCEPT !.call =
                    [fn |-> "get_context_tree", cls |-> klass, data |-> NoneV,
                     context |-> NoneV, base |-> NoneV,
                     ret |-> get_context_tree(cx.variant, cx.decl, klass),
                     handed |-> NoneV]]
    /\ UNCHANGED tvars

CtxNext ==
    ContextGetCall \/ ContextPreInitCall \/ Construct \/ ModelDump
    \/ GetContextTreeCall \/ ModelValidateCall \/ ConstructRoot

SpecCtx == CtxInit /\ [][CtxNext]_vars

----------------------------------------------------------------------------
(* Context models over the heap: which objects the calls hand out.        *)
(* Contexts, raw data, the classes' model_config and the constructed       *)
(* entity are objects of the heap; a context value that can be changed in  *)
(* place (a list, say) is a leaf object.  Address 0 is None.               *)

\* calls made in one behaviour, and in-place changes the caller makes
MaxCalls == 1
MaxMutations == 1

ModelObj(ents) == [kind |-> "model", v |-> 0, ents |-> ents]
NewDict(h, ents) == [h |-> Append(h, NodeObj(ents)), a |-> Len(h) + 1]

\* one statement after another: the first one's result, named in the rest
With(val, Rest(_)) == Rest(val)

\* bool(x)
Truthy(h, a) ==
    CASE h[a].kind = "leaf" -> h[a].v # 0
      [] h[a].kind = "node" -> h[a].ents # <<>>
      [] OTHER -> TRUE

\* {**x, **y}: the entries of y put over the entries of x
RECURSIVE PutAll(_, _)
PutAll(ents, more) ==
    IF more = <<>> THEN ents
    ELSE PutAll(SetKey(ents, Head(more).k, Head(more).a), Tail(more))

\* x or Context(), and data.get(k, Context()), as entry lists
EntsOr(h, a) == IF a = 0 THEN <<>> ELSE h[a].ents
EntsGet(h, data, k) ==
    IF HasKey(h[data].ents, k) THEN h[GetKey(h[data].ents, k)].ents ELSE <<>>

\* a deepcopy that returns its argument
deepcopy_Same(h, a) == [h |-> h, a |-> a]

\* copy.deepcopy: new objects all the way down
RECURSIVE deepcopy(_, _)
RECURSIVE DeepcopyEntries(_, _, _)
DeepcopyEntries(h, ents, acc) ==
    IF ents = <<>> THEN [h |-> h, ents |-> acc]
    ELSE LET c == deepcopy(h, Head(ents).a)
         IN DeepcopyEntries(c.h, Tail(ents), Append(acc, [k |-> Head(ents).k, a |-> c.a]))
deepcopy(h, a) ==
    IF h[a].kind = "leaf" THEN Copy(h, a)
    ELSE LET c == DeepcopyEntries(h, h[a].ents, <<>>)
         IN [h |-> Append(c.h, [h[a] EXCEPT !.ents = c.ents]), a |-> Len(c.h) + 1]

\* cls.model_config[PLUGIN_SETTINGS][CONTEXT]
DefaultAt(h, config) == GetKey(h[GetKey(h[config].ents, PLUGIN_SETTINGS)].ents, CONTEXT)

\* context_base or deepcopy(cls.model_config[PLUGIN_SETTINGS][CONTEXT])
BaseOrDefault(h, config, context_base) ==
    IF context_base # 0 /\ Truthy(h, context_base) THEN Same(h, context_base)
    ELSE deepcopy(h, DefaultAt(h, config))

\* ContextBase.context_get / ContextStore.context_get on objects
context_get_at(h, variant, config, data, context, context_base) ==
    IF h[data].kind = "model"
    THEN IF variant = "ContextStore" /\ HasKey(h[data].ents, CONTEXT)
         THEN Same(h, GetKey(h[data].ents, CONTEXT))
         ELSE NewDict(h, <<>>)
    ELSE LET b == BaseOrDefault(h, config, context_base)
         IN NewDict(b.h,
                PutAll(PutAll(PutAll(b.h[b.a].ents, EntsGet(h, data, _CONTEXT)),
                              IF variant = "ContextStore"
                              THEN EntsGet(h, data, CONTEXT) ELSE <<>>),
                       EntsOr(h, context)))

\* filt(x) is truthy: some truthy leaf is left at some depth
RECURSIVE FiltTruthy(_, _)
FiltTruthy(h, a) ==
    IF h[a].kind = "leaf" THEN h[a].v # 0
    ELSE \E i \in 1..Len(h[a].ents) : FiltTruthy(h, h[a].ents[i].a)

\* get_context_tree on objects: config is a deepcopy of the class's
\* model_config, plugins and context are objects of that copy.  The node of
\* a field is built only if the field's name is not excluded; the node of
\* an annotation that declares neither fields nor model_config holds empty
\* mappings only, filt empties it and none of its objects is kept
RECURSIVE get_context_tree_at(_, _, _, _)
RECURSIVE ContextTreeNodesAt(_, _, _, _, _)
ContextTreeNodesAt(h, variant, cfg, fields, nodes) ==
    IF fields = <<>> THEN [h |-> h, ents |-> nodes]
    ELSE LET f == Head(fields)
         IN IF f.f \in ExcludedFields \/ f.ann \notin DOMAIN cfg
            THEN ContextTreeNodesAt(h, variant, cfg, Tail(fields), nodes)
            ELSE With(get_context_tree_at(h, variant, cfg, f.ann), LAMBDA n :
                 ContextTreeNodesAt(n.h, variant, cfg, Tail(fields),
                     IF FiltTruthy(n.h, n.a) THEN SetKey(nodes, f.f, n.a) ELSE nodes))
get_context_tree_at(h, variant, cfg, klass) ==
    With(ContextTreeNodesAt(h, variant, cfg, model_fields(variant, klass), <<>>), LAMBDA ns :
    With(IF klass \in DOMAIN cfg THEN deepcopy(ns.h, cfg[klass]) ELSE NewDict(ns.h, <<>>),
         LAMBDA c :
    With(IF HasKey(c.h[c.a].ents, PLUGIN_SETTINGS)
         THEN Same(c.h, GetKey(c.h[c.a].ents, PLUGIN_SETTINGS))
         ELSE NewDict(c.h, <<>>), LAMBDA p :
    With(IF HasKey(p.h[p.a].ents, CONTEXT)
         THEN Same(p.h, GetKey(p.h[p.a].ents, CONTEXT))
         ELSE NewDict(p.h, <<>>), LAMBDA x :
    With(NewDict(x.h, ns.ents), LAMBDA tr :
    NewDict(tr.h, <<[k |-> CONFIG, a |-> c.a], [k |-> PLUGINS, a |-> p.a],
                    [k |-> CONTEXT, a |-> x.a], [k |-> _CONTEXT_TREE, a |-> tr.a]>>))))))

\* ContextBase.context_pre_init's apply() on objects: the entry _context
\* is skipped, a nested mapping is copied, walked and replaced by
\* {**v, _CONTEXT: {**data.get(_CONTEXT, Context()), **context}}, any other
\* value is replaced by a copy
RECURSIVE PreInitWalkAt(_, _, _, _)
PreInitWalkAt(h, ents, acc, injected) ==
    IF ents = <<>> THEN [h |-> h, ents |-> acc]
    ELSE LET e == Head(ents)
         IN With(IF e.k = _CONTEXT THEN Same(h, e.a)
                 ELSE IF h[e.a].kind = "node"
                 THEN With(PreInitWalkAt(h, h[e.a].ents, <<>>, injected), LAMBDA w :
                      With(NewDict(w.h, injected), LAMBDA inj :
                      NewDict(inj.h, SetKey(w.ents, _CONTEXT, inj.a))))
                 ELSE Copy(h, e.a), LAMBDA r :
            PreInitWalkAt(r.h, Tail(ents), Append(acc, [k |-> e.k, a |-> r.a]), injected))

\* ContextStore.context_get_data on objects
RECURSIVE context_get_data_at(_, _, _, _, _, _)
RECURSIVE ContextGetDataFieldsAt(_, _, _, _, _, _)
ContextGetDataFieldsAt(h, variant, config, data, fields, context) ==
    IF fields = <<>> THEN h
    ELSE LET field == Head(fields).k
             node == Head(fields).a
         IN With(IF HasKey(h[data].ents, field) /\ Truthy(h, GetKey(h[data].ents, field))
                 THEN Same(h, GetKey(h[data].ents, field))
                 ELSE NewDict(h, <<>>), LAMBDA g :
            IF g.h[g.a].kind = "model"
            THEN ContextGetDataFieldsAt(g.h, variant, config, data, Tail(fields), context)
            ELSE With(context_get_at(g.h, variant, config, data, context,
                                     GetKey(g.h[node].ents, CONTEXT)), LAMBDA c :
                 With(context_get_data_at(c.h, variant, config, g.a,
                                          GetKey(c.h[node].ents, _CONTEXT_TREE), c.a),
                      LAMBDA d :
                 ContextGetDataFieldsAt(
                     [d.h EXCEPT ![data].ents = SetKey(@, field, d.a)],
                     variant, config, data, Tail(fields), context))))
context_get_data_at(h, variant, config, data, tree, context) ==
    With(Copy(h, data), LAMBDA cp :
    With(ContextGetDataFieldsAt(cp.h, variant, config, cp.a, h[tree].ents, context),
         LAMBDA h2 :
    NewDict(h2, SetKey(h2[cp.a].ents, _CONTEXT, context))))

\* cls.context_pre_init on objects
context_pre_init_at(h, variant, cfg, cls, data, context) ==
    IF h[data].kind = "model" THEN Same(h, data)
    ELSE IF variant = "ContextStore"
    THEN With(get_context_tree_at(h, variant, cfg, cls), LAMBDA tr :
         With(context_get_at(tr.h, variant, cfg[cls], data, context, 0), LAMBDA c :
         context_get_data_at(c.h, variant, cfg[cls], data,
                             GetKey(c.h[tr.a].ents, _CONTEXT_TREE), c.a)))
    ELSE With(context_get_at(h, variant, cfg[cls], data, context, 0), LAMBDA c :
         With(NewDict(c.h, SetKey(h[data].ents, _CONTEXT, c.a)), LAMBDA top :
         With(Copy(top.h, top.a), LAMBDA cp :
         With(PreInitWalkAt(cp.h, cp.h[cp.a].ents, <<>>,
                            PutAll(EntsGet(h, data, _CONTEXT), c.h[c.a].ents)), LAMBDA w :
         [h |-> [w.h EXCEPT ![cp.a].ents = w.ents], a |-> cp.a]))))

\* the objects reachable from an object
RECURSIVE Reach(_, _)
Reach(h, a) == {a} \cup UNION {Reach(h, h[a].ents[i].a) : i \in 1..Len(h[a].ents)}
ReachAll(h, S) == UNION {Reach(h, a) : a \in S}

\* raw data of the calls: an optional _context, an optional nested child
RefCtx == NodeVal(<<[k |-> "a", val |-> LeafVal(1)]>>)
RefFlat == {NodeVal(<<>>), NodeVal(<<[k |-> _CONTEXT, val |-> RefCtx]>>)}
RefNested ==
    {NodeVal(<<[k |-> "child", val |-> NodeVal(<<>>)]>>),
     NodeVal(<<[k |-> _CONTEXT, val |-> RefCtx],
               [k |-> "child", val |-> NodeVal(<<[k |-> _CONTEXT, val |-> RefCtx]>>)]>>)}
\* the class's model_config with the declared default context d
ConfigVal(d) ==
    NodeVal(<<[k |-> PLUGIN_SETTINGS, val |-> NodeVal(<<[k |-> CONTEXT, val |-> d]>>)],
              [k |-> PROTECTED_NAMESPACES, val |-> LeafVal(0)]>>)
RefDefault == NodeVal(<<[k |-> "b", val |-> LeafVal(1)]>>)

\* a call: the function, its data (the entity, or raw data), whether a
\* context and a context_base are given, and, for a construction, whether
\* the entity keeps the very context object the validator was handed
Request(fn, ent, data, hasc, hasb, same) ==
    [fn |-> fn, ent |-> ent, data |-> data, hasc |-> hasc, hasb |-> hasb, same |-> same]
Requests(fn) ==
    CASE fn = "context_get" ->
            {Request(fn, FALSE, d, FALSE, FALSE, FALSE) : d \in RefFlat}
            \cup {Request(fn, FALSE, NodeVal(<<>>), c, ~c, FALSE) : c \in BOOLEAN}
            \cup {Request(fn, TRUE, NodeVal(<<>>), FALSE, FALSE, FALSE)}
      [] fn = "context_pre_init" ->
            {Request(fn, FALSE, d, FALSE, FALSE, FALSE) : d \in RefNested}
      [] fn = "__init__" ->
            {Request(fn, FALSE, d, FALSE, FALSE, sm) : d \in RefNested, sm \in BOOLEAN}
      [] fn = "model_dump" ->
            {Request(fn, TRUE, NodeVal(<<>>), c, FALSE, FALSE) : c \in BOOLEAN}
      [] OTHER ->
            {Request(fn, FALSE, NodeVal(<<>>), FALSE, FALSE, FALSE)}

\* an optional argument laid out on the heap
BuildOpt(h, val, given) == IF given THEN Build(h, val) ELSE [h |-> h, a |-> 0]

\* Outer(**data): __context_init__ hands data and context to the validator;
\* a ContextStore keeps info.context in its field context, as that very
\* object or as a new mapping of the same values
context_init_at(h, variant, cfg, data, same) ==
    With(context_pre_init_at(h, variant, cfg, "Outer", data, 0), LAMBDA p :
    With(NewDict(p.h, EntsGet(p.h, p.a, _CONTEXT)), LAMBDA c :
    With(IF same THEN Same(c.h, c.a) ELSE Copy(c.h, c.a), LAMBDA kept :
    [h |-> Append(kept.h, ModelObj(IF variant = "ContextStore"
                                   THEN <<[k |-> CONTEXT, a |-> kept.a]>>
                                   ELSE <<>>)),
     a |-> Len(kept.h) + 1,
     handed |-> {p.a, c.a}])))

\* self.model_dump(context=...): the context handed to the serializer
model_dump_at(h, variant, config, self, context) ==
    IF variant = "ContextStore"
    THEN With(context_get_at(h, variant, config, self, context, 0), LAMBDA own :
         NewDict(own.h, PutAll(EntsGet(own.h, self, CONTEXT), own.h[own.a].ents)))
    ELSE IF context # 0 /\ Truthy(h, context) THEN Same(h, context)
    ELSE NewDict(h, <<>>)

\* a call made: the heap after it, the object it returned, and the objects
\* it handed to its caller or to the validator
Perform(h, variant, cfg, ent, q) ==
    With(IF q.ent THEN Same(h, ent) ELSE Build(h, q.data), LAMBDA d :
    With(BuildOpt(d.h, RefCtx, q.hasc), LAMBDA c :
    With(BuildOpt(c.h, RefCtx, q.hasb), LAMBDA b :
    With(CASE q.fn = "context_get" ->
                 context_get_at(b.h, variant, cfg.Outer, d.a, c.a, b.a)
           [] q.fn = "context_pre_init" ->
                 context_pre_init_at(c.h, variant, cfg, "Outer", d.a, c.a)
           [] q.fn = "__init__" -> context_init_at(d.h, variant, cfg, d.a, q.same)
           [] q.fn = "model_dump" ->
                 model_dump_at(c.h, variant, cfg.Outer, d.a, c.a)
           [] OTHER -> get_context_tree_at(h, variant, cfg, "Outer"), LAMBDA r :
    [h |-> r.h, a |-> r.a,
     handed |-> {r.a} \cup (IF q.fn = "__init__" THEN r.handed ELSE {})]))))

\* the classes' model_config and an entity Outer(child={}) on the heap
ObjInit ==
    /\ \E variant \in Variants, same \in BOOLEAN :
          LET o == Build(<<>>, ConfigVal(RefDefault))
              i == Build(o.h, ConfigVal(RefDefault))
              cfg == [Outer |-> o.a, Inner |-> i.a]
              e == Perform(i.h, variant, cfg, 0,
                           Request("__init__", FALSE, NodeVal(<<>>), FALSE, FALSE, same))
          IN /\ heap = e.h
             /\ heap0 = i.h
             /\ cx = [variant |-> variant, cfg |-> cfg, ent |-> e.a,
                      out |-> e.handed, calls |-> <<>>, muts |-> 0,
                      again |-> [i |-> 0, ret |-> LeafVal(0)]]
    /\ t = 0 /\ hooks = DefaultHooks
    /\ op = "none" /\ pc = "obj" /\ stack = <<>> /\ result = 0 /\ mf = NoFn

\* the value of the entity a call is made on
EntityValue(q) == IF q.ent THEN Val(heap, cx.ent) ELSE LeafVal(0)

\* a call and the record kept of it: the request, the value of the entity
\* when the call was made, and the value the call returned
MakeCall(fn) ==
    /\ pc = "obj" /\ Len(cx.calls) < MaxCalls
    /\ \E q \in Requests(fn) :
          LET r == Perform(heap, cx.variant, cx.cfg, cx.ent, q)
          IN /\ heap' = r.h
             /\ cx' = [cx EXCEPT
                         !.calls = Append(@, [q |-> q, self |-> EntityValue(q),
                                              ret |-> Val(r.h, r.a)]),
                         !.out = @ \cup r.handed]
    /\ UNCHANGED <<heap0, t, hooks, op, pc, stack, result, mf>>

\* Outer.context_get(data, context, context_base), data raw or the entity
CallContextGet == MakeCall("context_get")

\* Outer.context_pre_init(data, context)
CallContextPreInit == MakeCall("context_pre_init")

\* Outer(**data)
CallConstruct == MakeCall("__init__")

\* self.model_dump(context=...)
CallModelDump == MakeCall("model_dump")

\* get_context_tree(Outer)
CallGetContextTree == MakeCall("get_context_tree")

\* the caller changes, in place, an object it reaches from what the calls
\* handed out: a mutable value, or a mapping (which it clears)
CallerMutates ==
    /\ pc = "obj" /\ cx.muts < MaxMutations /\ cx.again.i = 0
    /\ \E a \in ReachAll(heap, cx.out) :
          /\ heap[a].kind \in {"leaf", "node"}
          /\ heap[a].kind = "node" => heap[a].ents # <<>>
          /\ heap' = [heap EXCEPT ![a] = IF @.kind = "leaf" THEN LeafObj(Flip(@.v))
                                         ELSE NodeObj(<<>>)]
    /\ cx' = [cx EXCEPT !.muts = @ + 1]
    /\ UNCHANGED <<heap0, t, hooks, op, pc, stack, result, mf>>

\* an earlier call is made again with equal arguments
CallAgain ==
    /\ pc = "obj" /\ cx.again.i = 0
    /\ \E i \in 1..Len(cx.calls) :
          LET q == cx.calls[i].q
              r == Perform(heap, cx.variant, cx.cfg, cx.ent, q)
          IN /\ EntityValue(q) = cx.calls[i].self
             /\ heap' = r.h
             /\ cx' = [cx EXCEPT !.again = [i |-> i, ret |-> Val(r.h, r.a)],
                                 !.out = @ \cup r.handed]
    /\ UNCHANGED <<heap0, t, hooks, op, pc, stack, result, mf>>

ObjNext ==
    CallContextGet \/ CallContextPreInit \/ CallConstruct \/ CallModelDump
    \/ CallGetContextTree \/ CallerMutates \/ CallAgain

SpecObj == ObjInit /\ [][ObjNext]_vars

----------------------------------------------------------------------------
(* Properties of the tree transformer *)

Unchanged(a) == heap[a] = heap0[a]
InputAddrs == 1..Len(heap0)
\* the input has a nested mapping that is not empty
HasNestedNode ==
    \E i \in 1..Len(heap0[t].ents) :
        /\ IsNode(heap0, heap0[t].ents[i].a)
        /\ heap0[heap0[t].ents[i].a].ents # <<>>

\* C1: after apply(t, hooks) returns, t and every Node (and Leaf) nested in t
\* hold exactly what they held before the call, whatever the hooks did to
\* the result.
Thm_C1_ApplyLeavesInputUntouched ==
    (op = "apply" /\ pc = "done") => \A a \in InputAddrs : Unchanged(a)

Wit_C1_ApplyChangedResult ==
    /\ op = "apply" /\ pc = "done"
    /\ HasNestedNode
    /\ Val(heap, result) # Val(heap0, t)

\* C2: during update, the Node and Leaf objects nested in the input are
\* never themselves mutated (every visited nested Node and Leaf is copied
\* first); only the root container update was given is mutated.
CE_C2_UpdateCopiesNested ==
    (op = "update" /\ pc = "done") =>
        \A a \in InputAddrs : a # t => Unchanged(a)

PassKeys(fr) == KeySeq(heap[fr.node].ents)
MarkedUpTo(fr, n) == {fr.marks[i] : i \in 1..n}
Live == pc \in {"running", "done"}

\* C3: within one pass over a Node every entry present at its start is
\* visited exactly once in the original order, no key is removed before all
\* entries were processed, and then exactly the marked keys are removed, in
\* the order they were marked, each once.
Thm_C3_DeferredDeletion ==
    Live => \A d \in 1..Len(stack) :
        LET fr == stack[d]
        IN /\ Len(fr.visited) <= Len(fr.keys0)
           /\ fr.visited = SubSeq(fr.keys0, 1, Len(fr.visited))
           /\ fr.ndel > 0 => fr.visited = fr.keys0
           /\ fr.ndel <= Len(fr.marks)
           /\ \A i, j \in 1..Len(fr.marks) : i # j => fr.marks[i] # fr.marks[j]
           /\ PassKeys(fr) =
                SelectSeq(fr.keys0, LAMBDA k : k \notin MarkedUpTo(fr, fr.ndel))

Wit_C3_TwoMarksDeleted ==
    /\ pc = "running"
    /\ Top.ndel = 2
    /\ Len(PassKeys(Top)) = Len(Top.keys0) - 2

\* C4 as claimed: if a hook fails part-way through apply or update, the tree
\* the caller passed in holds exactly the entries it held before the call.
CE_C4_FailureLeavesInputUntouched ==
    pc = "failed" => Val(heap, t) = Val(heap0, t)

\* C4 amended: after a failed apply the passed tree is untouched at every
\* depth; after a failed update the passed container still has all its keys
\* (its deletions are deferred) though replaced values may be visible.
Thm_C4_FailedApplyLeavesInputUntouched ==
    pc = "failed" =>
        /\ op = "apply" => \A a \in InputAddrs : Unchanged(a)
        /\ op = "update" => KeySeq(heap[t].ents) = KeySeq(heap0[t].ents)

Wit_C4_FailedApplyAfterReplacement ==
    /\ pc = "failed" /\ op = "apply"
    /\ Val(heap, stack[1].node) # Val(heap0, t)

\* C5: apply(t) with every hook at its default returns a tree deep-equal to
\* t whose root container is a different object from t.
Thm_C5_ApplyNoOp ==
    (op = "apply" /\ hooks = DefaultHooks /\ pc = "done") =>
        /\ Val(heap, result) = Val(heap0, t)
        /\ result # t

Wit_C5_ApplyNoOpNested ==
    /\ op = "apply" /\ hooks = DefaultHooks /\ pc = "done"
    /\ HasNestedNode

----------------------------------------------------------------------------
(* Properties of the context resolver *)

\* the precedence merge of the sources srcs, lowest first: every key of any
\* source, with the value of the last source that has it
LastWith(srcs, k) ==
    CHOOSE i \in 1..Len(srcs) :
        /\ k \in VKeys(srcs[i].ents)
        /\ \A j \in (i + 1)..Len(srcs) : k \notin VKeys(srcs[j].ents)
Resolve(srcs) ==
    [k \in UNION {VKeys(srcs[i].ents) : i \in 1..Len(srcs)} |->
        VGet(srcs[LastWith(srcs, k)].ents, k)]

\* an optional context argument, None read as the empty context
Given(c) == IF c.kind = "none" THEN EmptyCtx ELSE c

LastCall == cx.call
CalledRaw(fn) == cx.variant # "none" /\ LastCall.fn = fn /\ LastCall.data.kind = "map"
Declared(cls) == cx.decl[cls]

\* C6 as claimed: for raw data contextGet returns the shallow union of
\* baseContext (the declared default when no base is given), then the
\* context embedded under the transient key, then explicitContext.
CE_C6_ContextGetThreeSources ==
    CalledRaw("context_get") =>
        AsFun(LastCall.ret) =
            Resolve(<<IF LastCall.base.kind = "none"
                      THEN Declared(LastCall.cls) ELSE LastCall.base,
                      DictGet(LastCall.data, _CONTEXT, EmptyCtx),
                      Given(LastCall.context)>>)

\* C6 amended: the base is baseContext when it is given and not empty,
\* otherwise the declared default; and the stored-context variant merges the
\* context under data's context key after the embedded one and before the
\* explicit one.
Thm_C6_ContextGetPrecedence ==
    CalledRaw("context_get") =>
        AsFun(LastCall.ret) =
            Resolve(<<IF LastCall.base.kind = "map" /\ LastCall.base.ents # <<>>
                      THEN LastCall.base ELSE Declared(LastCall.cls),
                      DictGet(LastCall.data, _CONTEXT, EmptyCtx),
                      IF cx.variant = "ContextStore"
                      THEN DictGet(LastCall.data, CONTEXT, EmptyCtx) ELSE EmptyCtx,
                      Given(LastCall.context)>>)

Wit_C6_CollidingSources ==
    /\ CalledRaw("context_get")
    /\ cx.variant = "ContextStore"
    /\ LastCall.base.kind = "map" /\ VKeys(LastCall.base.ents) = {"a"}
    /\ VKeys(DictGet(LastCall.data, _CONTEXT, EmptyCtx).ents) = {"a", "b"}
    /\ VKeys(DictGet(LastCall.data, CONTEXT, EmptyCtx).ents) = {"b"}
    /\ VKeys(Given(LastCall.context).ents) = {"b"}
    /\ AsFun(LastCall.ret) = [k \in {"a", "b"} |->
                                 IF k = "a" THEN L(SrcRootEmbedded) ELSE L(SrcExplicit)]

\* the nested raw sub-structure of the data of the last call, and what
\* context_pre_init made of it
ChildIn(d) == DictGet(d, "child", NoneV)
PreInitInjectsChild ==
    /\ CalledRaw("context_pre_init")
    /\ ChildIn(LastCall.data).kind = "map"
    /\ LastCall.ret.kind = "map"
    /\ cx.variant = "ContextStore" => Declared("Inner").ents # <<>>

\* C7: the context injected into a nested raw sub-structure follows the
\* precedence declared default < ancestor-supplied context < context embedded
\* in the sub-structure's own data < the caller's explicit context.
CE_C7_NestedPrecedence ==
    PreInitInjectsChild =>
        AsFun(VGet(ChildIn(LastCall.ret).ents, _CONTEXT)) =
            Resolve(<<Declared(IF cx.variant = "ContextStore" THEN "Inner" ELSE "Outer"),
                      VGet(LastCall.ret.ents, _CONTEXT),
                      DictGet(ChildIn(LastCall.data), _CONTEXT, EmptyCtx),
                      Given(LastCall.context)>>)

Dumped == cx.variant # "none" /\ LastCall.fn \in {"model_dump", "model_dump_json"}

\* C9: a stored-context entity re-emitted with a context override hands the
\* serialization pass its stored context merged with the override: every key
\* of the override is there, with the override's value.
CE_C9_DumpMergesOverride ==
    (Dumped /\ cx.variant = "ContextStore" /\ LastCall.context.kind = "map") =>
        AsFun(LastCall.handed) =
            Resolve(<<VGet(LastCall.data.ents, CONTEXT), LastCall.context>>)

\* C10: on emission of a ContextBase model the serialization pass is handed
\* the declared default context overlaid by the caller-supplied context.
CE_C10_DumpMergesDefault ==
    (Dumped /\ cx.variant = "ContextBase") =>
        AsFun(LastCall.handed) =
            Resolve(<<Declared(LastCall.cls), Given(LastCall.context)>>)

\* a value without the entries under the transient context key, at every
\* depth; mappings are compared as dicts, whatever the order of their keys
RECURSIVE Plain(_)
Plain(val) ==
    [kind |-> val.kind, v |-> val.v, cls |-> val.cls,
     fields |-> IF val.kind = "model" THEN val.ents ELSE <<>>,
     items |-> IF val.kind = "map"
               THEN [k \in VKeys(val.ents) \ {_CONTEXT} |-> Plain(VGet(val.ents, k))]
               ELSE [k \in {} |-> 0]]

\* C11: context_pre_init(d, context) on raw data d returns d with only
\* transient context keys added: apart from the entries under the transient
\* context key, the result has at every depth exactly the keys and values of
\* d, also for fields that are absent or empty in d.
CE_C11_PreInitAddsOnlyContextKeys ==
    CalledRaw("context_pre_init") =>
        /\ LastCall.ret.kind = "map"
        /\ Plain(LastCall.ret) = Plain(LastCall.data)

CalledOnEntity == cx.variant # "none" /\ LastCall.fn = "context_get" /\ LastCall.data.kind = "model"

\* C12 as claimed: context_get of an already constructed entity is the empty
\* context, whatever explicit and base contexts are given, in every variant.
CE_C12_EntityHasEmptyContext ==
    CalledOnEntity => LastCall.ret = EmptyCtx

\* C12 amended: context_get of an already constructed entity ignores the
\* explicit and the base context; it is the empty context, except that
\* ContextStore.context_get of a ContextStore entity is the context that
\* entity stores.
Thm_C12_EntityContext ==
    CalledOnEntity =>
        LastCall.ret = IF cx.variant = "ContextStore" /\ LastCall.data.cls \in Classes
                       THEN VGet(LastCall.data.ents, CONTEXT)
                       ELSE EmptyCtx

Wit_C12_StoredContextReturned ==
    /\ CalledOnEntity
    /\ cx.variant = "ContextStore"
    /\ LastCall.data.cls = "Inner"
    /\ LastCall.context.kind = "map" /\ VKeys(LastCall.context.ents) = {"a", "b"}
    /\ LastCall.base.kind = "map" /\ VKeys(LastCall.base.ents) = {"b"}
    /\ AsFun(LastCall.ret) = [k \in {"a"} |-> L(SrcRootStored)]

----------------------------------------------------------------------------
(* Properties of sync *)

\* the tree at an address as a dict: a function of its keys, whatever the
\* insertion order
RECURSIVE DictOf(_, _)
DictOf(h, a) ==
    [leaf |-> h[a].kind = "leaf", v |-> h[a].v,
     items |-> [k \in KeysOfEnts(h[a].ents) |-> DictOf(h, GetKey(h[a].ents, k))]]

KeysAt(h, a) == KeysOfEnts(h[a].ents)
At(h, a, k) == GetKey(h[a].ents, k)
BothNodes(h, a, b) == h[a].kind = "node" /\ h[b].kind = "node"
Synced == pc = "map" /\ mf.name = "sync"

\* the keys of s are those of r, here and below wherever r and t both hold a
\* Node under a shared key (r and t as they were before the call, in h0)
RECURSIVE KeysFollow(_, _, _, _, _)
KeysFollow(h0, h, r, tg, s) ==
    /\ KeysAt(h, s) = KeysAt(h0, r)
    /\ \A k \in KeysAt(h0, r) \cap KeysAt(h0, tg) :
          BothNodes(h0, At(h0, r, k), At(h0, tg, k)) =>
              KeysFollow(h0, h, At(h0, r, k), At(h0, tg, k), At(h, s, k))

\* C13: the key set of sync(r, t) is the key set of r: no key absent from r
\* is in the result, every key of t absent from r is removed; and so at every
\* nested level where r and t both hold a Node under a shared key.
Thm_C13_SyncKeysAreReferenceKeys ==
    Synced => KeysFollow(heap0, heap, mf.reference, mf.target, result)

Wit_C13_NestedForeignKeyRemoved ==
    /\ Synced /\ mf.first = 0
    /\ \E k \in KeysAt(heap0, mf.reference) \cap KeysAt(heap0, mf.target) :
          /\ BothNodes(heap0, At(heap0, mf.reference, k), At(heap0, mf.target, k))
          /\ KeysAt(heap0, At(heap0, mf.target, k)) \ KeysAt(heap0, At(heap0, mf.reference, k)) # {}
          /\ KeysAt(heap0, At(heap0, mf.reference, k)) \ KeysAt(heap0, At(heap0, mf.target, k)) # {}

\* C14: sync converges in one step: sync(r, sync(r, t)) == sync(r, t), and
\* sync(r, r) == r.
Thm_C14_SyncConverges ==
    /\ (Synced /\ mf.first # 0) => DictOf(heap, result) = DictOf(heap, mf.first)
    /\ (Synced /\ mf.first = 0 /\ mf.target = mf.reference) =>
           DictOf(heap, result) = DictOf(heap0, mf.reference)

Wit_C14_SecondSyncAfterChange ==
    /\ Synced /\ mf.first # 0
    /\ KeysAt(heap, mf.orig) \ KeysAt(heap, mf.reference) # {}
    /\ KeysAt(heap, mf.reference) \ KeysAt(heap, mf.orig) # {}

\* what sync puts under each key k of the reference r, for target tg and
\* result s
RECURSIVE ValuesFollow(_, _, _, _, _)
ValuesFollow(h0, h, r, tg, s) ==
    \A k \in KeysAt(h0, r) :
        /\ k \in KeysAt(h, s)
        /\ LET ra == At(h0, r, k)
               sa == At(h, s, k)
           IN IF k \notin KeysAt(h0, tg)
              THEN sa = ra /\ DictOf(h, sa) = DictOf(h0, ra)
              ELSE LET ta == At(h0, tg, k)
                   IN IF DictOf(h0, ra) = DictOf(h0, ta)
                      THEN sa = ta /\ DictOf(h, sa) = DictOf(h0, ta)
                      ELSE IF BothNodes(h0, ra, ta)
                      THEN /\ sa \notin 1..Len(h0)
                           /\ KeysAt(h, sa) = KeysAt(h0, ra)
                           /\ ValuesFollow(h0, h, ra, ta, sa)
                      ELSE sa = ra /\ DictOf(h, sa) = DictOf(h0, ra)

\* C15: for every key k of the reference, sync(reference, target)[k] is
\* reference[k] when k is absent from target or the two values are unequal
\* and not both Nodes, the target's own value when the two are equal, and
\* sync(reference[k], target[k]) when both are Nodes and unequal.
Thm_C15_SyncValues ==
    Synced => ValuesFollow(heap0, heap, mf.reference, mf.target, result)

Wit_C15_RecursedIntoUnequalNodes ==
    /\ Synced /\ mf.first = 0
    /\ \E k \in KeysAt(heap0, mf.reference) \cap KeysAt(heap0, mf.target) :
          /\ BothNodes(heap0, At(heap0, mf.reference, k), At(heap0, mf.target, k))
          /\ DictOf(heap0, At(heap0, mf.reference, k)) # DictOf(heap0, At(heap0, mf.target, k))
          /\ At(heap, result, k) \notin 1..Len(heap0)
          /\ DictOf(heap, At(heap, result, k)) = DictOf(heap0, At(heap0, mf.reference, k))
          /\ KeysAt(heap0, At(heap0, mf.reference, k)) # {}

\* C16: sync returns a copy: after the call the target and the reference,
\* and every Node nested in them at any depth, hold the keys and values they
\* held before the call.
Thm_C16_SyncLeavesInputsUntouched ==
    Synced => \A a \in 1..Len(heap0) : heap[a] = heap0[a]

Wit_C16_ResultDiffersFromTarget ==
    /\ Synced /\ mf.first = 0
    /\ KeysAt(heap0, mf.target) \ KeysAt(heap0, mf.reference) # {}
    /\ DictOf(heap, result) # DictOf(heap0, mf.target)
    /\ DictOf(heap, mf.target) = DictOf(heap0, mf.target)
    /\ result # mf.target

----------------------------------------------------------------------------
(* Properties of filt *)

Filtered == op = "apply" /\ hooks = FiltHooks /\ pc = "done"

\* C17: filt is idempotent: filt(filt(t)) == filt(t).
Thm_C17_FiltIdempotent ==
    (Filtered /\ mf.name = "filt") => DictOf(heap, result) = DictOf(heap, mf.first)

Wit_C17_SecondFiltAfterRemoval ==
    /\ Filtered /\ mf.name = "filt"
    /\ KeysAt(heap, result) # {}
    /\ \E a \in 1..Len(heap0) : heap0[a].kind = "leaf" /\ heap0[a].v = 0
    /\ \E a \in 1..Len(heap0) : heap0[a].kind = "node" /\ heap0[a].ents = <<>>

\* the truthy leaves of the tree at a, each with the keys that lead to it
RECURSIVE TruthyLeaves(_, _)
TruthyLeaves(h, a) ==
    IF h[a].kind = "leaf"
    THEN IF h[a].v # 0 THEN {[path |-> <<>>, v |-> h[a].v]} ELSE {}
    ELSE UNION {{[path |-> <<k>> \o l.path, v |-> l.v] : l \in TruthyLeaves(h, At(h, a, k))} :
                k \in KeysAt(h, a)}

\* no falsy leaf and no empty mapping at a or below it
RECURSIVE NothingFalsy(_, _)
NothingFalsy(h, a) ==
    IF h[a].kind = "leaf" THEN h[a].v # 0
    ELSE /\ h[a].ents # <<>>
         /\ \A k \in KeysAt(h, a) : NothingFalsy(h, At(h, a, k))

\* C18: filt(t) has no falsy Leaf and no empty Node below the root, and its
\* truthy leaves are those of t, each at its original path; so a Node whose
\* children are all filtered away is removed itself.
Thm_C18_FiltStripsFalsy ==
    Filtered =>
        /\ \A k \in KeysAt(heap, result) : NothingFalsy(heap, At(heap, result, k))
        /\ TruthyLeaves(heap, result) = TruthyLeaves(heap0, t)

Wit_C18_EmptiedBranchRemoved ==
    /\ Filtered /\ mf.name = "none"
    /\ \E k \in KeysAt(heap0, t) :
          /\ heap0[At(heap0, t, k)].kind = "node"
          /\ heap0[At(heap0, t, k)].ents # <<>>
          /\ k \notin KeysAt(heap, result)
    /\ TruthyLeaves(heap, result) # {}

----------------------------------------------------------------------------
(* Properties of sort_by_keys_pattern *)

SortReturned == pc = "map" /\ mf.name = "sort_by_keys_pattern" /\ mf.ret.raised = ""

\* the number a string of decimal digits denotes
RECURSIVE Decimal(_, _)
Decimal(str, acc) ==
    IF str = <<>> THEN acc
    ELSE Decimal(Tail(str), 10 * acc + (Head(str) - Ord.zero))

SortKeyOf(item) == get_key(item, mf.groups, mf.transform)

\* C19: sort_by_keys_pattern returns exactly the entries of its input,
\* ordered by the sort key the transform yields for the captured group
\* strings of each key, entries of equal sort key in their input order; with
\* an integer transform the order is that of the numbers, not of the strings.
Thm_C19_SortedStableNumeric ==
    SortReturned =>
        LET m == mf.mapping
            r == mf.ret.ents
        IN /\ Len(r) = Len(m)
           /\ {r[i] : i \in 1..Len(r)} = {m[i] : i \in 1..Len(m)}
           /\ \A i, j \in 1..Len(r) : i < j =>
                 /\ ~KeyLess(SortKeyOf(r[j]), SortKeyOf(r[i]))
                 /\ ~KeyLess(SortKeyOf(r[i]), SortKeyOf(r[j])) => r[i].val < r[j].val
                 /\ mf.transform = "int_first" =>
                        Decimal(Search(r[i].k).n, 0) <= Decimal(Search(r[j].k).n, 0)

\* {"v10_a": 1, "v2_b": 2, "v2_a": 3} sorted on n as a number
Wit_C19_TwoBeforeTenTiesKept ==
    /\ SortReturned
    /\ mf.transform = "int_first" /\ mf.groups = <<"n">>
    /\ mf.mapping =
         <<[k |-> <<Ord.v, Ord.one, Ord.zero, Ord.underscore, Ord.a>>, val |-> 1],
           [k |-> <<Ord.v, Ord.two, Ord.underscore, Ord.b>>, val |-> 2],
           [k |-> <<Ord.v, Ord.two, Ord.underscore, Ord.a>>, val |-> 3]>>
    /\ mf.ret.ents = <<mf.mapping[2], mf.mapping[3], mf.mapping[1]>>

----------------------------------------------------------------------------
(* Properties of replace and replace_pattern *)

Replacing == pc = "map" /\ mf.name \in {"replace", "replace_pattern"}

\* the mapping after the first n rules, each applied to what the rules
\* before it left
RECURSIVE AfterRules(_, _, _, _)
AfterRules(name, mapping, repls, n) ==
    IF n = 0 THEN mapping
    ELSE LET before == AfterRules(name, mapping, repls, n - 1)
             r == repls[n]
         IN [k \in DOMAIN before \cup {r.dst} |->
                IF k = r.dst THEN Substitute(name, before[r.src], r.find, r.repl)
                ELSE before[k]]

\* C20: replace and replace_pattern process their rules strictly in order,
\* writing mapping[dst] = substitute(mapping[src], find, repl) before the
\* next rule is read: a later rule whose src is an earlier rule's dst reads
\* the value the earlier rule wrote.
Thm_C20_RulesInOrder ==
    Replacing => mf.mapping = AfterRules(mf.name, mf.mapping0, mf.repls, mf.i)

Wit_C20_LaterRuleReadsEarlierWrite ==
    /\ Replacing /\ mf.i = 2
    /\ mf.repls[1].dst = mf.repls[2].src
    /\ mf.repls[1].src # mf.repls[1].dst
    /\ mf.mapping[mf.repls[2].dst] #
          Substitute(mf.name, mf.mapping0[mf.repls[2].src], mf.repls[2].find, mf.repls[2].repl)

\* the keys the mapping has once the first n rules are done: its own and
\* every dst written so far
KeysAfterRules(n) == DOMAIN mf.mapping0 \cup {mf.repls[j].dst : j \in 1..n}

\* C21: replace and replace_pattern raise KeyError exactly when the src of
\* the rule being processed is absent from the mapping at that moment; a src
\* that an earlier rule of the call wrote as its dst is not missing.
Thm_C21_MissingSrcRaises ==
    Replacing =>
        /\ mf.raised \in {"", "KeyError"}
        /\ \A j \in 1..mf.i : mf.repls[j].src \in KeysAfterRules(j - 1)
        /\ mf.raised = "KeyError" =>
              /\ mf.i < Len(mf.repls)
              /\ mf.repls[mf.i + 1].src \notin KeysAfterRules(mf.i)
        /\ (mf.raised = "" /\ mf.i < Len(mf.repls)) => ENABLED ReplaceStep

Wit_C21_SrcWrittenByEarlierRule ==
    /\ Replacing /\ mf.i = 2 /\ mf.raised = ""
    /\ mf.repls[1].dst = "c" /\ mf.repls[2].src = "c"
    /\ "c" \notin DOMAIN mf.mapping0

----------------------------------------------------------------------------
(* Properties of get_context_tree *)

TreeBuilt == cx.variant # "none" /\ LastCall.fn = "get_context_tree"

\* the keys of the context tree of a node, and the node under a key
TreeKeys(node) == VKeys(VGet(node.ents, _CONTEXT_TREE).ents)
TreeChild(node, f) == VGet(VGet(node.ents, _CONTEXT_TREE).ents, f)

RECURSIVE NoRootNorContextKey(_)
NoRootNorContextKey(node) ==
    /\ TreeKeys(node) \cap {"root", "context"} = {}
    /\ \A f \in TreeKeys(node) : NoRootNorContextKey(TreeChild(node, f))

\* C22: no field named root or context is a key of the context tree that
\* get_context_tree builds, at the top level or in any nested context tree.
Thm_C22_TreeExcludesRootAndContext ==
    TreeBuilt => NoRootNorContextKey(LastCall.ret)

\* Holder in the ContextBase variant: its fields context: Inner and item:
\* Root (root: Inner) carry declared contexts; the tree has item and child,
\* and nothing under item
Wit_C22_FieldsWithContextLeftOut ==
    /\ TreeBuilt /\ cx.variant = "ContextBase" /\ LastCall.cls = "Holder"
    /\ Declared("Inner").ents # <<>> /\ Declared("Outer").ents # <<>>
    /\ TreeKeys(LastCall.ret) = {"item", "child"}
    /\ TreeKeys(TreeChild(LastCall.ret, "item")) = {}

----------------------------------------------------------------------------
(* Properties of the resolver over the heap *)

OnObjects == pc = "obj"

\* the objects of the classes' model_config are as they were at the start
ConfigUnchanged ==
    /\ \A a \in 1..Len(heap0) : heap[a] = heap0[a]
    /\ \A c \in DOMAIN cx.cfg : Val(heap, cx.cfg[c]) = Val(heap0, cx.cfg[c])

SameArguments(c1, c2) == c1.q = c2.q /\ c1.self = c2.self

\* C23: whatever calls are made and whatever the caller changes in the
\* objects they handed out, the declared default contexts and the
\* model_config of the classes stay as they were, and a call made again
\* with equal arguments gives an equal result.
Thm_C23_NoStateBetweenCalls ==
    OnObjects =>
        /\ ConfigUnchanged
        /\ cx.again.i # 0 => cx.again.ret = cx.calls[cx.again.i].ret
        /\ \A i, j \in 1..Len(cx.calls) :
              SameArguments(cx.calls[i], cx.calls[j]) => cx.calls[i].ret = cx.calls[j].ret

\* a call returned a context with the declared default's entry b, the
\* caller changed that value in place, and the call was made again
Wit_C23_RepeatedAfterMutation ==
    /\ OnObjects /\ cx.again.i # 0 /\ cx.muts = 1
    /\ cx.calls[cx.again.i].q.fn \in {"context_get", "context_pre_init"}
    /\ \E a \in cx.out :
          /\ heap[a].kind = "node" /\ HasKey(heap[a].ents, "b")
          /\ heap[GetKey(heap[a].ents, "b")].v = 0

----------------------------------------------------------------------------
(* Properties of two calls at once *)

TwoCalls == pc = "par"

\* the objects of the first heap that both mappings reach
SharedObjects == Reach(heap0, t[1]) \cap Reach(heap0, t[2])

\* C24 as stated: while two calls run interleaved on two mappings that share
\* a nested mapping, no object both reach is written, and a call that has
\* returned has returned what it returns when run alone.
CE_C24_CallsDoNotInterfere ==
    TwoCalls =>
        /\ \A a \in SharedObjects : heap[a] = heap0[a]
        /\ \A i \in Calls :
              /\ mf.st[i] # "failed"
              /\ mf.st[i] = "done" =>
                    Val(heap, result[i]) = AloneValue(op[i], hooks, heap0, t[i])

----------------------------------------------------------------------------
(* Properties of a whole call *)

Ran == pc = "ran"

\* what the hooks make of a value
LeafHookValue(kind, val) == IF kind = "id" THEN val ELSE LeafVal(Flip(val.v))
Tagged(ents) ==
    IF \E i \in 1..Len(ents) : ents[i].k = TAG
    THEN [i \in 1..Len(ents) |->
             IF ents[i].k = TAG THEN [k |-> TAG, val |-> LeafVal(1)] ELSE ents[i]]
    ELSE Append(ents, [k |-> TAG, val |-> LeafVal(1)])
NodeHookValue(kind, val) == IF kind = "id" THEN val ELSE NodeVal(Tagged(val.ents))
Holds(kind, val) ==
    kind = "falsey" /\ (IF val.isleaf THEN val.v = 0 ELSE val.ents = <<>>)

\* what del_leaf is given: the pre-visited leaf, either as it was before
\* leaf_fun was called or as leaf_fun left it (a leaf_fun that changes its
\* argument in place flips it)
LeafSeen(hk, val, after) ==
    IF after /\ hk.leaf_fun = "mutate" THEN LeafVal(Flip(val.v)) ELSE val

\* the entries a pass leaves, entry by entry: skip_key, the pre-visit hook,
\* the skip predicate, the pre-delete predicate, then for a node the
\* recursion, node_fun and del_node of its result, for a leaf leaf_fun and
\* del_leaf of the pre-visited leaf
RECURSIVE HookOrderWith(_, _, _)
HookOrderWith(hk, ents, after) ==
    IF ents = <<>> THEN <<>>
    ELSE LET e == Head(ents)
             rest == HookOrderWith(hk, Tail(ents), after)
             Kept(val) == <<[k |-> e.k, val |-> val]>> \o rest
             n1 == NodeHookValue(hk.node_fun_pre, e.val)
             n2 == NodeHookValue(hk.node_fun, NodeVal(HookOrderWith(hk, n1.ents, after)))
             l1 == LeafHookValue(hk.leaf_fun_pre, e.val)
             l2 == LeafHookValue(hk.leaf_fun, l1)
         IN IF hk.skip_key = e.k THEN Kept(e.val)
            ELSE IF ~e.val.isleaf
            THEN IF Holds(hk.skip_node, n1) THEN Kept(n1)
                 ELSE IF Holds(hk.del_node_pre, n1) THEN rest
                 ELSE IF Holds(hk.del_node, n2) THEN rest
                 ELSE Kept(n2)
            ELSE IF Holds(hk.skip_leaf, l1) THEN Kept(l1)
                 ELSE IF Holds(hk.del_leaf_pre, l1) THEN rest
                 ELSE IF Holds(hk.del_leaf, LeafSeen(hk, l1, after)) THEN rest
                 ELSE Kept(l2)
HookOrder(hk, ents) == HookOrderWith(hk, ents, FALSE)

\* C25: for every entry the hooks run in the order skip_key, pre-visit
\* hook, skip predicate, pre-delete predicate, then recursion and node_fun
\* and del_node for a node or leaf_fun for a leaf, each short-circuit
\* leaving out what comes after it; so a call returns the mapping that
\* order gives (hook sets that pass no del_leaf).
Thm_C25_HookOrder ==
    (Ran /\ hooks.del_leaf = "false") =>
        Val(heap, result) = NodeVal(HookOrder(hooks, Val(heap0, t).ents))

\* a node that skip_node holds of is kept as node_fun_pre left it, though
\* del_node_pre holds of it too
Wit_C25_SkipBeforeDelete ==
    /\ Ran /\ hooks.skip_node = "falsey" /\ hooks.del_node_pre = "falsey"
    /\ \E i \in 1..Len(heap[result].ents) :
          heap[heap[result].ents[i].a] = NodeObj(<<>>)

----------------------------------------------------------------------------
(* Properties of context_pre_init and the context tree *)

\* Outer.context_pre_init was called on raw data whose child is a mapping
\* that has no _context of its own
PreInitOnNested ==
    /\ CalledRaw("context_pre_init")
    /\ ChildIn(LastCall.data).kind = "map"
    /\ ~VHas(ChildIn(LastCall.data).ents, _CONTEXT)
    /\ LastCall.ret.kind = "map"

ChildInTree == "child" \in TreeKeys(get_context_tree(cx.variant, cx.decl, "Outer"))
ChildInjected == VHas(ChildIn(LastCall.ret).ents, _CONTEXT)

\* C26: context_pre_init adds _context at the root, and at a nested raw
\* mapping exactly if its field has a node in the context tree; the context
\* injected there is the field's declared base context overlaid by the
\* context resolved for the parent.
CE_C26_InjectsAlongTree ==
    PreInitOnNested =>
        /\ VHas(LastCall.ret.ents, _CONTEXT)
        /\ ChildInjected <=> ChildInTree
        /\ ChildInjected =>
              AsFun(VGet(ChildIn(LastCall.ret).ents, _CONTEXT)) =
                  Resolve(<<Declared("Inner"), VGet(LastCall.ret.ents, _CONTEXT)>>)

----------------------------------------------------------------------------
(* sync and the identity of objects *)

\* under every key of the result s: the target's own object where target
\* and reference held equal values, the reference's own object where the
\* value is the reference's, and below a rebuilt Node the same again
RECURSIVE IdentityKept(_, _, _, _, _)
IdentityKept(h0, h, r, tg, s) ==
    \A k \in KeysAt(h, s) :
        LET sa == At(h, s, k)
        IN IF k \in KeysAt(h0, tg) /\ k \in KeysAt(h0, r)
              /\ DictOf(h0, At(h0, r, k)) = DictOf(h0, At(h0, tg, k))
           THEN sa = At(h0, tg, k)
           ELSE IF k \in KeysAt(h0, tg) /\ k \in KeysAt(h0, r)
                   /\ BothNodes(h0, At(h0, r, k), At(h0, tg, k))
           THEN IdentityKept(h0, h, At(h0, r, k), At(h0, tg, k), sa)
           ELSE k \in KeysAt(h0, r) /\ sa = At(h0, r, k)

\* C27: sync keeps objects where it can: where target and reference hold
\* equal values the result holds the target's object, where a value comes
\* from the reference the result holds the reference's object, and no leaf
\* object is made by the call.
Thm_C27_SyncKeepsIdentity ==
    Synced =>
        /\ IdentityKept(heap0, heap, mf.reference, mf.target, result)
        /\ \A a \in (Len(heap0) + 1)..Len(heap) : heap[a].kind = "node"

\* one key with equal values in two different objects, kept as the
\* target's, and one key the target lacks, taken over as the reference's
Wit_C27_TargetKeptReferenceShared ==
    /\ Synced /\ mf.first = 0
    /\ \E k \in KeysAt(heap0, mf.reference) \cap KeysAt(heap0, mf.target) :
          /\ At(heap0, mf.reference, k) # At(heap0, mf.target, k)
          /\ DictOf(heap0, At(heap0, mf.reference, k)) = DictOf(heap0, At(heap0, mf.target, k))
          /\ At(heap, result, k) = At(heap0, mf.target, k)
    /\ \E k \in KeysAt(heap0, mf.reference) \ KeysAt(heap0, mf.target) :
          At(heap, result, k) = At(heap0, mf.reference, k)

----------------------------------------------------------------------------
(* What the deletion predicates are given *)

GivenDelLeaf == Ran /\ hooks.del_leaf = "falsey"

\* C28 as stated: del_leaf is given the leaf leaf_fun_pre returned, before
\* leaf_fun is applied, and del_node the result of node_fun; whether a leaf
\* is deleted is settled before leaf_fun runs.
CE_C28_DelLeafBeforeLeafFun ==
    Ran => Val(heap, result) = NodeVal(HookOrderWith(hooks, Val(heap0, t).ents, FALSE))

\* C28 amended: del_leaf is given the leaf object leaf_fun_pre returned,
\* after leaf_fun has been called on it, and del_node the result of
\* node_fun; what leaf_fun returns has no part in it, what leaf_fun does to
\* its argument in place has.
Thm_C28_DelLeafOnPreVisitedLeaf ==
    Ran => Val(heap, result) = NodeVal(HookOrderWith(hooks, Val(heap0, t).ents, TRUE))

\* a truthy leaf for which leaf_fun returned a falsy value is kept, with the
\* falsy value
Wit_C28_FalsyReturnKept ==
    /\ GivenDelLeaf /\ hooks.leaf_fun = "new"
    /\ \E i \in 1..Len(heap[result].ents) :
          /\ heap[result].ents[i].k \in KeysOfEnts(heap0[t].ents)
          /\ heap[heap[result].ents[i].a] = LeafObj(0)

----------------------------------------------------------------------------
(* The context every way of constructing hands to the validation *)

ConstructionCalls ==
    {"__init__", "model_validate", "model_validate_strings", "model_validate_json",
     "ContextRoot.__init__"}
Constructing ==
    /\ cx.variant # "none" /\ LastCall.fn \in ConstructionCalls
    /\ LastCall.data.kind = "map" /\ LastCall.handed.kind = "map"

\* C29: for the same raw data and the same explicit context, the
\* constructor, model_validate, model_validate_json and
\* model_validate_strings all hand the validation the context
\* contextGet(data, explicit): the declared default overlaid by the embedded
\* and the explicit context.
CE_C29_EveryEntryHandsResolvedContext ==
    Constructing =>
        AsFun(LastCall.handed) =
            Resolve(<<Declared(IF LastCall.cls = "Root" THEN "Outer" ELSE LastCall.cls),
                      DictGet(LastCall.data, _CONTEXT, EmptyCtx),
                      IF cx.variant = "ContextStore" /\ LastCall.cls # "Root"
                      THEN DictGet(LastCall.data, CONTEXT, EmptyCtx) ELSE EmptyCtx,
                      Given(LastCall.context)>>)

====
